---- MODULE Spec2Model ----
(***************************************************************************)
(* The in-memory store of the backtester (class MemStorage): sessions,     *)
(* trades, journal entries, the generated price series, the per-entity id  *)
(* counters, the session clock, the price lookups and the session          *)
(* statistics.                                                             *)
(*                                                                         *)
(* forexPrices is the Map of the candle series the constructor generates;  *)
(* gen is the position of the generating loop (its instrument, its turn i, *)
(* the running price, the length of the array and the candle pushed last), *)
(* or GenDone once the constructor has returned.                           *)
(*                                                                         *)
(* ret is the last call of the store: its name, its arguments, the status  *)
(* the trade it names had before the call (prev), and what it returned.    *)
(*                                                                         *)
(* inFlight holds the calls of the async methods that requests in flight   *)
(* are waiting for: the method of each, its arguments, whether its body    *)
(* has run (pc), and the value its promise resolved with.  The store       *)
(* methods contain no await, so a body runs from its first statement to    *)
(* its return in one turn of the event loop: one step of the model.        *)
(*                                                                         *)
(* Values.  A JavaScript number is modelled as an exact decimal            *)
(* [n |-> mantissa, k |-> fraction digits] (value n / 10^k, normalised so  *)
(* that equal values are equal records); the binary rounding error of      *)
(* doubles is outside the model, and so are NaN and infinite arguments.    *)
(* A decimal string is [m, e]: the digits as printed, m / 10^e with e      *)
(* fraction digits.  null, undefined, Date and free text are records too,  *)
(* so that every nullable field compares.  A Date holds its instant in     *)
(* minutes.                                                                *)
(***************************************************************************)
EXTENDS Integers, Sequences, FiniteSets, TLC

VARIABLES sessions, trades, journalEntries, forexPrices, currentIds, gen, ret,
          inFlight

vars == <<sessions, trades, journalEntries, forexPrices, currentIds, gen, ret,
          inFlight>>

-----------------------------------------------------------------------------
(* Bounds of the model *)

MaxTrades == 2
MaxSessions == 1
MaxStatTrades == 3
MaxCandles == 3
MaxDrift == 2
MaxJournal == 1

-----------------------------------------------------------------------------
(* JavaScript values *)

Null == [null |-> TRUE]
Undefined == [undefined |-> TRUE]
NaN == [nan |-> TRUE]
Date(t) == [time |-> t]
Text(s) == [text |-> s]
Dec(m, e) == [m |-> m, e |-> e]

RECURSIVE Pow10(_)
Pow10(k) == IF k = 0 THEN 1 ELSE 10 * Pow10(k - 1)

Abs(i) == IF i < 0 THEN -i ELSE i

\* n / 10^k with the trailing zeros of n removed (k < 0 for multiples of ten)
RECURSIVE Norm(_, _)
Norm(n, k) ==
  IF n = 0 THEN [n |-> 0, k |-> 0]
  ELSE IF n % 10 = 0 THEN Norm(n \div 10, k - 1) ELSE [n |-> n, k |-> k]

Int2Num(i) == Norm(i, 0)
Zero == Int2Num(0)

\* x - y, x + y, x * y on exact decimals
Scaled(x, k) == x.n * Pow10(k - x.k)
MaxK(x, y) == IF x.k > y.k THEN x.k ELSE y.k
NumSub(x, y) == Norm(Scaled(x, MaxK(x, y)) - Scaled(y, MaxK(x, y)), MaxK(x, y))
NumAdd(x, y) == Norm(Scaled(x, MaxK(x, y)) + Scaled(y, MaxK(x, y)), MaxK(x, y))
NumMul(x, y) == Norm(x.n * y.n, x.k + y.k)
NumGt(x, y) == Scaled(x, MaxK(x, y)) > Scaled(y, MaxK(x, y))

\* parseFloat of a decimal string: its value
parseFloat(s) == Norm(s.m, s.e)

\* Number.prototype.toString: the shortest decimal that denotes the value
toString(x) == IF x.k < 0 THEN Dec(x.n * Pow10(-x.k), 0) ELSE Dec(x.n, x.k)

\* Number.prototype.toFixed(2): the nearest multiple of 0.01, a tie going away
\* from zero, printed with two fraction digits
RoundHalfAway(n, d) ==
  IF n < 0 THEN -((2 * (-n) + d) \div (2 * d)) ELSE (2 * n + d) \div (2 * d)

toFixed2(x) ==
  IF x.k <= 2 THEN Dec(x.n * Pow10(2 - x.k), 2)
  ELSE Dec(RoundHalfAway(x.n, Pow10(x.k - 2)), 2)

\* x / y as a fraction num / den of integers; x / 0 is no finite number
NumDiv(x, y) ==
  IF y.n = 0 THEN NaN
  ELSE [num |-> Scaled(x, MaxK(x, y)), den |-> Scaled(y, MaxK(x, y))]

-----------------------------------------------------------------------------
(* A JavaScript Map: the entries in insertion order *)

MapKeys(m) == { m[i].key : i \in 1..Len(m) }
MapHas(m, k) == k \in MapKeys(m)
MapIndex(m, k) == CHOOSE i \in 1..Len(m) : m[i].key = k
MapGet(m, k) == IF MapHas(m, k) THEN m[MapIndex(m, k)].value ELSE Undefined
\* Map.set as a delete followed by an insert: a key that is set again moves to
\* the end
MapSetMoveToEnd(m, k, v) ==
  Append(SelectSeq(m, LAMBDA en : en.key # k), [key |-> k, value |-> v])

MapSet(m, k, v) ==
  IF MapHas(m, k) THEN [m EXCEPT ![MapIndex(m, k)].value = v]
  ELSE Append(m, [key |-> k, value |-> v])
MapDelete(m, k) == SelectSeq(m, LAMBDA en : en.key # k)
MapValues(m) == [i \in 1..Len(m) |-> m[i].value]

\* { ...obj, ...updates }
Spread(obj, updates) ==
  [f \in DOMAIN obj \cup DOMAIN updates |->
     IF f \in DOMAIN updates THEN updates[f] ELSE obj[f]]

\* obj.f ?? dflt, an absent field being undefined
Coalesce(obj, f, dflt) == IF f \in DOMAIN obj THEN obj[f] ELSE dflt


\* f * i for a fraction f
FracTimes(f, i) == IF f = NaN THEN NaN ELSE [num |-> f.num * i, den |-> f.den]

-----------------------------------------------------------------------------
(* Program constants *)

LotSize == 100000
ThirtyDays == 30 * 24 * 60
hoursOfData == 4380

-----------------------------------------------------------------------------
(* Inputs *)

Pair == "EUR/USD"
TradeTypes == {"BUY", "SELL"}

\* ids a caller may name: the created ones and one that never exists
SessionIds == 1..(MaxSessions + 1)
TradeIds == 1..(MaxTrades + 1)

\* the instants new Date() returns
WallClock == { Date(0) }

\* InsertSession records
InsertSessions ==
  { [userId |-> 1, name |-> Text("s"), currencyPair |-> Pair,
     startingBalance |-> Dec(1000000, 2), currentBalance |-> Dec(1000000, 2)] }

\* InsertTrade records: entryPrice "1.1000", positionSize "1.00"; status is an
\* optional field of insertTradeSchema
InsertTrades ==
  { [sessionId |-> 1, currencyPair |-> Pair, type |-> ty,
     positionSize |-> Dec(100, 2), entryPrice |-> Dec(11000, 4)] :
      ty \in TradeTypes }
  \cup
  { [sessionId |-> 1, currencyPair |-> Pair, type |-> "BUY",
     positionSize |-> Dec(100, 2), entryPrice |-> Dec(11000, 4),
     status |-> "CLOSED"] }

\* Partial<Trade> bodies of PUT /api/trades/:id: any subset of the fields
TradeUpdates == { [status |-> "OPEN"] }
PriceUpdates == { [entryPrice |-> Dec(12000, 4), positionSize |-> Dec(200, 2)] }

\* (exitPrice, closedAt) of a close: 1.105 at instant 1, 1.09999933 at instant 2
CloseArgs ==
  { [exitPrice |-> Norm(1105, 3), closedAt |-> Date(1)],
    [exitPrice |-> Norm(109999933, 8), closedAt |-> Date(2)] }

-----------------------------------------------------------------------------
(* The price generator (initializeForexData)                               *)
(*                                                                         *)
(* The floating-point prices of the generator are fixed-point numbers in   *)
(* millionths; every product is rounded to a millionth.  Math.random()     *)
(* is a draw in thousandths, 0..999.  getHours and getDay read the instant *)
(* in UTC.                                                                 *)

pairs == << "EUR/USD", "GBP/USD", "USD/JPY", "AUD/USD",
            "USD/CAD", "NZD/USD", "EUR/GBP", "EUR/JPY" >>

\* the base price of an instrument, in millionths
getBasePriceForPair(pair) ==
  CASE pair = "EUR/USD" -> 1085000
    [] pair = "GBP/USD" -> 1265000
    [] pair = "USD/JPY" -> 149500000
    [] pair = "AUD/USD" -> 658000
    [] pair = "USD/CAD" -> 1362000
    [] pair = "NZD/USD" -> 612000
    [] pair = "EUR/GBP" -> 858000
    [] pair = "EUR/JPY" -> 162300000
    [] OTHER -> 1000000

\* (a * b + carry) / 10^n rounded down, for a, b >= 0 and n not below the
\* number of digits of b: one digit of b at a time, so that no product leaves
\* 32 bits
RECURSIVE MulCarry(_, _, _, _)
MulCarry(a, b, n, carry) ==
  IF b = 0 THEN carry \div Pow10(n)
  ELSE MulCarry(a, b \div 10, n - 1, (a * (b % 10) + carry) \div 10)

\* a * b / 10^n to the nearest unit, for n above the number of digits of b
MulShift(a, b, n) == (MulCarry(a, b, n - 1, 0) + 5) \div 10

\* r / 1000 of x to the nearest unit, r a draw and x >= 0
Drawn(r, x) == (r * x + 500) \div 1000

FxScale(a, b, n) ==
  IF (a < 0) = (b < 0) THEN MulShift(Abs(a), Abs(b), n)
  ELSE -MulShift(Abs(a), Abs(b), n)

Half(x) == IF x < 0 THEN -((-x) \div 2) ELSE x \div 2

Max3(a, b, c) == IF a >= b /\ a >= c THEN a ELSE IF b >= c THEN b ELSE c
Min3(a, b, c) == IF a <= b /\ a <= c THEN a ELSE IF b <= c THEN b ELSE c

\* Number.prototype.toFixed(5) of a positive price in millionths
toFixed5(x) == Dec((x + 5) \div 10, 5)

\* 10000 * sin(2 * pi * j / 168) for the first quarter of the weekly cycle
SinQuarter ==
  << 0, 374, 747, 1120, 1490, 1859, 2225, 2588, 2948, 3303, 3653, 3999, 4339,
     4673, 5000, 5320, 5633, 5938, 6235, 6523, 6802, 7071, 7331, 7580, 7818,
     8046, 8262, 8467, 8660, 8841, 9010, 9166, 9309, 9439, 9556, 9659, 9749,
     9826, 9888, 9937, 9972, 9993, 10000 >>

\* Math.sin((i / 168) * Math.PI * 2), in ten-thousandths
trendCycle(i) ==
  LET j == i % 168
  IN  IF j <= 42 THEN SinQuarter[j + 1]
      ELSE IF j <= 84 THEN SinQuarter[84 - j + 1]
      ELSE IF j <= 126 THEN -SinQuarter[j - 84 + 1]
      ELSE -SinQuarter[168 - j + 1]

\* the multiplier of the hour and the day, in hundredths: the later windows
\* overwrite the earlier ones, the weekend takes three tenths
volatilityMultiplier(hour, dayOfWeek) ==
  LET london == IF hour >= 8 /\ hour <= 16 THEN 15 ELSE 10
      newYork == IF hour >= 13 /\ hour <= 21 THEN 20 ELSE london
      asian == IF hour >= 0 /\ hour <= 8 THEN 7 ELSE newYork
  IN  IF dayOfWeek = 0 \/ dayOfWeek = 6 THEN asian * 3 ELSE asian * 10

\* in ten-thousandths
baseVolatility(pair) ==
  IF pair = "USD/JPY" THEN 6
  ELSE IF pair = "GBP/USD" \/ pair = "EUR/GBP" THEN 12
  ELSE 8

getHours(t) == (t \div 60) % 24
getDay(t) == ((t \div (24 * 60)) + 4) % 7

\* validLow taking the largest of the three
validLowOfMax(open, close, low) == Max3(open, close, low)

\* Math.min(open, close, low)
validLow(open, close, low) == Min3(open, close, low)

\* the instant of the candle of turn i, counted forward from now
CandleTimeAhead(now, i) == now.time + i * 60

\* new Date(now.getTime() - i * 60 * 60 * 1000)
CandleTime(now, i) == now.time - i * 60

\* one turn of the loop: the candle of hour i before now, from the running
\* price and the draws d, and the running price of the next turn
GenCandle(pair, i, basePrice, now, id, d) ==
  LET timestamp == CandleTime(now, i)
      mult == volatilityMultiplier(getHours(timestamp), getDay(timestamp))
      volatility == baseVolatility(pair) * mult
      change == FxScale(basePrice, (d.change - 500) * volatility + 20 * trendCycle(i), 9)
      originalPrice == getBasePriceForPair(pair)
      moved == basePrice + change
      price == IF Abs(moved - originalPrice) > MulCarry(originalPrice, 15, 2, 0)
               THEN originalPrice + Half(moved - originalPrice)
               ELSE moved
      spread == MulShift(price, volatility * 3, 7)
      high == price + Drawn(d.high, spread)
      low == price - Drawn(d.low, spread)
      open == low + Drawn(d.open, high - low)
      close == low + Drawn(d.close, high - low)
      validHigh == Max3(open, close, high)
      volume == (500 + d.volume) * mult
      spiked == IF Abs(change) > MulShift(price, volatility * 7, 7)
                THEN (volume * (1500 + d.spike)) \div 1000
                ELSE volume
  IN  [candle |-> [id |-> id, pair |-> pair, timestamp |-> Date(timestamp),
                   open |-> toFixed5(open), high |-> toFixed5(validHigh),
                   low |-> toFixed5(validLow(open, close, low)), close |-> toFixed5(close),
                   volume |-> spiked],
       basePrice |-> close]

\* the turns i, i - 1, .. 0 of the loop, appended to prices; draws[j] are the
\* draws of the j-th candle
RECURSIVE GenPrices(_, _, _, _, _, _, _)
GenPrices(pair, now, i, basePrice, id, draws, prices) ==
  IF i < 0 THEN prices
  ELSE LET g == GenCandle(pair, i, basePrice, now, id, draws[Len(prices) + 1])
       IN  GenPrices(pair, now, i - 1, g.basePrice, id + 1, draws,
                     Append(prices, g.candle))

\* the Map the constructor leaves, for a lookback of hours candles
initializeForexData(now, hours, draws) ==
  [p \in 1..Len(pairs) |->
     [key |-> pairs[p],
      value |-> GenPrices(pairs[p], now, hours - 1, getBasePriceForPair(pairs[p]),
                          (p - 1) * hours + 1, draws, <<>>)]]

\* the draws of a candle: one Math.random() for each use in the loop
Draw(c, h, l, o, cl, v, sp) ==
  [change |-> c, high |-> h, low |-> l, open |-> o, close |-> cl,
   volume |-> v, spike |-> sp]

MidDraw == Draw(500, 500, 500, 500, 500, 500, 500)

GenDone == [stage |-> "done"]

\* the Map of the store specifications: each series cut to its latest candle,
\* generated from the middle draws at the anchor instant 0
SeedPrices == initializeForexData(Date(0), 1, <<MidDraw>>)

\* the loop of one instrument at its first turn: the running price is the
\* base price, prices is empty; every turn of the walk takes the same draws
GenStart(pair, now, draws) ==
  [stage |-> "loop", pair |-> pair, now |-> now, draws |-> draws,
   i |-> hoursOfData - 1, basePrice |-> getBasePriceForPair(pair),
   length |-> 0, candle |-> Null]

-----------------------------------------------------------------------------
(* State *)

Init ==
  /\ sessions = <<>>
  /\ trades = <<>>
  /\ journalEntries = <<>>
  /\ forexPrices = SeedPrices
  /\ currentIds = [user |-> 1, session |-> 1, trade |-> 1, journal |-> 1,
                   price |-> Len(pairs) + 1]
  /\ gen = GenDone
  /\ ret = [op |-> "new", args |-> Null, prev |-> "none", result |-> Undefined]
  /\ inFlight = <<>>

\* the promise of a call in flight resolves when the body of its method has
\* run: the first waiting call of the method with these arguments is done
Waiting(i, op, payload) ==
  inFlight[i].pc = "received" /\ inFlight[i].op = op /\ inFlight[i].payload = payload

Resolved(op, payload, result) ==
  LET waiting == { i \in 1..Len(inFlight) : Waiting(i, op, payload) }
  IN  IF waiting = {} THEN inFlight
      ELSE LET first == CHOOSE i \in waiting : \A j \in waiting : i <= j
           IN  [inFlight EXCEPT ![first].pc = "done", ![first].result = result]

Return(op, args, prev, result) ==
  [op |-> op, args |-> args, prev |-> prev, result |-> result]

-----------------------------------------------------------------------------
(* Session methods *)

\* a session that takes its backtesting fields from the request when it has them
NewSessionFromInput(id, insertSession, at) ==
  [id |-> id,
   userId |-> insertSession.userId,
   name |-> insertSession.name,
   currencyPair |-> insertSession.currencyPair,
   startingBalance |-> insertSession.startingBalance,
   currentBalance |-> insertSession.currentBalance,
   createdAt |-> at,
   updatedAt |-> at,
   isActive |-> Coalesce(insertSession, "isActive", FALSE),
   currentTime |-> Coalesce(insertSession, "currentTime", Date(at.time - ThirtyDays)),
   timeSpeed |-> Coalesce(insertSession, "timeSpeed", 1),
   isBacktesting |-> Coalesce(insertSession, "isBacktesting", TRUE)]

NewSession(id, insertSession, at) ==
  [id |-> id,
   userId |-> insertSession.userId,
   name |-> insertSession.name,
   currencyPair |-> insertSession.currencyPair,
   startingBalance |-> insertSession.startingBalance,
   currentBalance |-> insertSession.currentBalance,
   createdAt |-> at,
   updatedAt |-> at,
   isActive |-> Coalesce(insertSession, "isActive", FALSE),
   currentTime |-> Date(at.time - ThirtyDays),
   timeSpeed |-> 1,
   isBacktesting |-> TRUE]

\* createSession that numbers a session by the size of the Map
createSessionBySize(insertSession, at) ==
  LET id == Len(sessions) + 1
      session == NewSession(id, insertSession, at)
  IN  /\ currentIds' = [currentIds EXCEPT !.session = currentIds.session + 1]
      /\ sessions' = MapSet(sessions, id, session)
      /\ ret' = Return("createSession", [insertSession |-> insertSession], "none", session)
      /\ UNCHANGED <<trades, journalEntries, forexPrices, gen>>
      /\ inFlight' = Resolved("createSession", insertSession,
                             ret'.result)

createSession(insertSession, at) ==
  LET id == currentIds.session
      session == NewSession(id, insertSession, at)
  IN  /\ currentIds' = [currentIds EXCEPT !.session = id + 1]
      /\ sessions' = MapSet(sessions, id, session)
      /\ ret' = Return("createSession", [insertSession |-> insertSession], "none", session)
      /\ UNCHANGED <<trades, journalEntries, forexPrices, gen>>
      /\ inFlight' = Resolved("createSession", insertSession,
                             ret'.result)

\* deleteSession that takes the trades of the session with it
deleteSessionCascade(id) ==
  /\ sessions' = MapDelete(sessions, id)
  /\ trades' = SelectSeq(trades, LAMBDA en : en.value.sessionId # id)
  /\ ret' = Return("deleteSession", [id |-> id], "none", [bool |-> MapHas(sessions, id)])
  /\ UNCHANGED <<journalEntries, forexPrices, currentIds, gen, inFlight>>

deleteSession(id) ==
  /\ sessions' = MapDelete(sessions, id)
  /\ ret' = Return("deleteSession", [id |-> id], "none", [bool |-> MapHas(sessions, id)])
  /\ UNCHANGED <<trades, journalEntries, forexPrices, currentIds, gen, inFlight>>

-----------------------------------------------------------------------------
(* Trade methods *)

\* NewTrade taking the status of the input when it carries one
NewTradeInputStatus(id, insertTrade, at) ==
  [id |-> id,
   sessionId |-> insertTrade.sessionId,
   currencyPair |-> insertTrade.currencyPair,
   type |-> insertTrade.type,
   positionSize |-> insertTrade.positionSize,
   entryPrice |-> insertTrade.entryPrice,
   stopLoss |-> Coalesce(insertTrade, "stopLoss", Null),
   takeProfit |-> Coalesce(insertTrade, "takeProfit", Null),
   exitPrice |-> Null,
   pnl |-> Null,
   status |-> Coalesce(insertTrade, "status", "OPEN"),
   openedAt |-> at,
   closedAt |-> Null,
   notes |-> Coalesce(insertTrade, "notes", Null)]

NewTrade(id, insertTrade, at) ==
  [id |-> id,
   sessionId |-> insertTrade.sessionId,
   currencyPair |-> insertTrade.currencyPair,
   type |-> insertTrade.type,
   positionSize |-> insertTrade.positionSize,
   entryPrice |-> insertTrade.entryPrice,
   stopLoss |-> Coalesce(insertTrade, "stopLoss", Null),
   takeProfit |-> Coalesce(insertTrade, "takeProfit", Null),
   exitPrice |-> Null,
   pnl |-> Null,
   status |-> "OPEN",
   openedAt |-> at,
   closedAt |-> Null,
   notes |-> Coalesce(insertTrade, "notes", Null)]

createTrade(insertTrade, at) ==
  LET id == currentIds.trade
      trade == NewTrade(id, insertTrade, at)
  IN  /\ currentIds' = [currentIds EXCEPT !.trade = id + 1]
      /\ trades' = MapSet(trades, id, trade)
      /\ ret' = Return("createTrade", [insertTrade |-> insertTrade], "none", trade)
      /\ UNCHANGED <<sessions, journalEntries, forexPrices, gen>>
      /\ inFlight' = Resolved("createTrade", insertTrade,
                             ret'.result)

TradesBySessionId(tradeMap, sessionId) ==
  SelectSeq(MapValues(tradeMap), LAMBDA trade : trade.sessionId = sessionId)

UpdatedTrade(trade, updates) == Spread(trade, updates)

updateTrade(id, updates) ==
  LET trade == MapGet(trades, id)
      args == [id |-> id, updates |-> updates]
  IN  /\ IF trade = Undefined
         THEN /\ ret' = Return("updateTrade", args, "none", Undefined)
              /\ UNCHANGED trades
         ELSE /\ trades' = MapSet(trades, id, UpdatedTrade(trade, updates))
              /\ ret' = Return("updateTrade", args, trade.status,
                               UpdatedTrade(trade, updates))
      /\ UNCHANGED <<sessions, journalEntries, forexPrices, currentIds, gen, inFlight>>

\* Pnl with the formulas of the two directions exchanged
PnlExchanged(trade, exitPrice) ==
  LET entryPrice == parseFloat(trade.entryPrice)
      positionSize == parseFloat(trade.positionSize)
  IN  IF trade.type = "BUY"
      THEN NumMul(NumMul(NumSub(entryPrice, exitPrice), positionSize), Int2Num(LotSize))
      ELSE NumMul(NumMul(NumSub(exitPrice, entryPrice), positionSize), Int2Num(LotSize))

\* the realized profit and loss of closing trade at exitPrice
Pnl(trade, exitPrice) ==
  LET entryPrice == parseFloat(trade.entryPrice)
      positionSize == parseFloat(trade.positionSize)
  IN  IF trade.type = "BUY"
      THEN NumMul(NumMul(NumSub(exitPrice, entryPrice), positionSize), Int2Num(LotSize))
      ELSE NumMul(NumMul(NumSub(entryPrice, exitPrice), positionSize), Int2Num(LotSize))

ClosedTrade(trade, exitPrice, closedAt) ==
  Spread(trade, [status |-> "CLOSED",
                 exitPrice |-> toString(exitPrice),
                 pnl |-> toFixed2(Pnl(trade, exitPrice)),
                 closedAt |-> closedAt])

\* closeTrade refusing a trade that is already CLOSED
closeTradeOnce(id, exitPrice, closedAt) ==
  LET trade == MapGet(trades, id)
      args == [id |-> id, exitPrice |-> exitPrice, closedAt |-> closedAt]
  IN  /\ IF trade = Undefined
         THEN /\ ret' = Return("closeTrade", args, "none", Undefined)
              /\ UNCHANGED trades
         ELSE IF trade.status = "CLOSED"
         THEN /\ ret' = Return("closeTrade", args, trade.status, Undefined)
              /\ UNCHANGED trades
         ELSE /\ trades' = MapSet(trades, id, ClosedTrade(trade, exitPrice, closedAt))
              /\ ret' = Return("closeTrade", args, trade.status,
                               ClosedTrade(trade, exitPrice, closedAt))
      /\ UNCHANGED <<sessions, journalEntries, forexPrices, currentIds, gen, inFlight>>

\* closeTrade without the early return: an unknown id gets a record of the
\* close fields alone
closeTradeUnguarded(id, exitPrice, closedAt) ==
  LET trade == MapGet(trades, id)
      args == [id |-> id, exitPrice |-> exitPrice, closedAt |-> closedAt]
      closed == IF trade = Undefined
                THEN [status |-> "CLOSED", exitPrice |-> toString(exitPrice),
                      pnl |-> NaN, closedAt |-> closedAt]
                ELSE ClosedTrade(trade, exitPrice, closedAt)
  IN  /\ trades' = MapSet(trades, id, closed)
      /\ ret' = Return("closeTrade", args,
                       IF trade = Undefined THEN "none" ELSE trade.status, closed)
      /\ UNCHANGED <<sessions, journalEntries, forexPrices, currentIds, gen, inFlight>>

\* closeTrade that settles the realized pnl into the balance of the session
closeTradeSettling(id, exitPrice, closedAt) ==
  LET trade == MapGet(trades, id)
      args == [id |-> id, exitPrice |-> exitPrice, closedAt |-> closedAt]
      session == MapGet(sessions, trade.sessionId)
      settled ==
        Spread(session,
               [currentBalance |->
                  toFixed2(NumAdd(parseFloat(session.currentBalance),
                                  Pnl(trade, exitPrice)))])
  IN  /\ IF trade = Undefined
         THEN /\ ret' = Return("closeTrade", args, "none", Undefined)
              /\ UNCHANGED <<trades, sessions>>
         ELSE /\ trades' = MapSet(trades, id, ClosedTrade(trade, exitPrice, closedAt))
              /\ sessions' = IF session = Undefined THEN sessions
                             ELSE MapSet(sessions, trade.sessionId, settled)
              /\ ret' = Return("closeTrade", args, trade.status,
                               ClosedTrade(trade, exitPrice, closedAt))
      /\ UNCHANGED <<journalEntries, forexPrices, currentIds, gen, inFlight>>

closeTrade(id, exitPrice, closedAt) ==
  LET trade == MapGet(trades, id)
      args == [id |-> id, exitPrice |-> exitPrice, closedAt |-> closedAt]
  IN  /\ IF trade = Undefined
         THEN /\ ret' = Return("closeTrade", args, "none", Undefined)
              /\ UNCHANGED trades
         ELSE /\ trades' = MapSet(trades, id, ClosedTrade(trade, exitPrice, closedAt))
              /\ ret' = Return("closeTrade", args, trade.status,
                               ClosedTrade(trade, exitPrice, closedAt))
      /\ UNCHANGED <<sessions, journalEntries, forexPrices, currentIds, gen, inFlight>>

-----------------------------------------------------------------------------
(* Analytics *)

\* ClosedTrades without the status filter
ClosedTradesAnyStatus(tradeMap, sessionId) == TradesBySessionId(tradeMap, sessionId)

\* the closed trades of a session in the order of their closing
ClosedTradesByCloseTime(tradeMap, sessionId) ==
  SortSeq(SelectSeq(TradesBySessionId(tradeMap, sessionId),
                    LAMBDA trade : trade.status = "CLOSED"),
          LAMBDA a, b : a.closedAt.time < b.closedAt.time)

ClosedTrades(tradeMap, sessionId) ==
  SelectSeq(TradesBySessionId(tradeMap, sessionId),
            LAMBDA trade : trade.status = "CLOSED")

\* trade.pnl || "0"
PnlOrZero(trade) == IF trade.pnl = Null THEN Dec(0, 0) ELSE trade.pnl

\* StatsStep keeping the latest drawdown instead of the largest
StatsStepLatestDrawdown(acc, trade) ==
  LET pnl == parseFloat(PnlOrZero(trade))
      runningPnL == NumAdd(acc.runningPnL, pnl)
      peak == IF NumGt(runningPnL, acc.peak) THEN runningPnL ELSE acc.peak
      drawdown == NumSub(peak, runningPnL)
  IN  [totalPnL |-> NumAdd(acc.totalPnL, pnl),
       runningPnL |-> runningPnL,
       winningTrades |-> IF NumGt(pnl, Zero) THEN acc.winningTrades + 1
                         ELSE acc.winningTrades,
       losingTrades |-> IF NumGt(pnl, Zero) THEN acc.losingTrades
                        ELSE acc.losingTrades + 1,
       peak |-> peak,
       maxDrawdown |-> drawdown]

\* the body of closedTrades.forEach, applied to the running values acc
StatsStep(acc, trade) ==
  LET pnl == parseFloat(PnlOrZero(trade))
      runningPnL == NumAdd(acc.runningPnL, pnl)
      peak == IF NumGt(runningPnL, acc.peak) THEN runningPnL ELSE acc.peak
      drawdown == NumSub(peak, runningPnL)
  IN  [totalPnL |-> NumAdd(acc.totalPnL, pnl),
       runningPnL |-> runningPnL,
       winningTrades |-> IF NumGt(pnl, Zero) THEN acc.winningTrades + 1
                         ELSE acc.winningTrades,
       losingTrades |-> IF NumGt(pnl, Zero) THEN acc.losingTrades
                        ELSE acc.losingTrades + 1,
       peak |-> peak,
       maxDrawdown |-> IF NumGt(drawdown, acc.maxDrawdown) THEN drawdown
                       ELSE acc.maxDrawdown]

StatsStart ==
  [totalPnL |-> Zero, winningTrades |-> 0, losingTrades |-> 0,
   maxDrawdown |-> Zero, runningPnL |-> Zero, peak |-> Zero]

\* the running values after the first i closed trades
RECURSIVE StatsWalk(_, _)
StatsWalk(closedTrades, i) ==
  IF i = 0 THEN StatsStart
  ELSE StatsStep(StatsWalk(closedTrades, i - 1), closedTrades[i])

\* SessionStats dividing by totalTrades without testing it
SessionStatsUnguarded(tradeMap, sessionId) ==
  LET closedTrades == ClosedTrades(tradeMap, sessionId)
      acc == StatsWalk(closedTrades, Len(closedTrades))
      totalTrades == Len(closedTrades)
      winRate == FracTimes(NumDiv(Int2Num(acc.winningTrades), Int2Num(totalTrades)), 100)
      avgTrade == NumDiv(acc.totalPnL, Int2Num(totalTrades))
  IN  [totalPnL |-> acc.totalPnL,
       winRate |-> winRate,
       totalTrades |-> totalTrades,
       maxDrawdown |-> acc.maxDrawdown,
       avgTrade |-> avgTrade,
       winningTrades |-> acc.winningTrades,
       losingTrades |-> acc.losingTrades]

SessionStats(tradeMap, sessionId) ==
  LET closedTrades == ClosedTrades(tradeMap, sessionId)
      acc == StatsWalk(closedTrades, Len(closedTrades))
      totalTrades == Len(closedTrades)
      winRate == IF totalTrades > 0
                 THEN FracTimes(NumDiv(Int2Num(acc.winningTrades), Int2Num(totalTrades)), 100)
                 ELSE Zero
      avgTrade == IF totalTrades > 0
                  THEN NumDiv(acc.totalPnL, Int2Num(totalTrades))
                  ELSE Zero
  IN  [totalPnL |-> acc.totalPnL,
       winRate |-> winRate,
       totalTrades |-> totalTrades,
       maxDrawdown |-> acc.maxDrawdown,
       avgTrade |-> avgTrade,
       winningTrades |-> acc.winningTrades,
       losingTrades |-> acc.losingTrades]

\* getSessionStats taking the closed trades it has reported out of the store
getSessionStatsDraining(sessionId) ==
  /\ ret' = Return("getSessionStats", [sessionId |-> sessionId], "none",
                   SessionStats(trades, sessionId))
  /\ trades' = SelectSeq(trades, LAMBDA en :
                  ~(en.value.sessionId = sessionId /\ en.value.status = "CLOSED"))
  /\ UNCHANGED <<sessions, journalEntries, forexPrices, currentIds, gen, inFlight>>

getSessionStats(sessionId) ==
  /\ ret' = Return("getSessionStats", [sessionId |-> sessionId], "none",
                   SessionStats(trades, sessionId))
  /\ UNCHANGED <<sessions, trades, journalEntries, forexPrices, currentIds, gen, inFlight>>

\* one turn of the loop of initializeForexData; of the array prices the state
\* keeps the length and the candle pushed last
generateCandle ==
  /\ gen.stage = "loop"
  /\ gen.i >= 0
  /\ LET g == GenCandle(gen.pair, gen.i, gen.basePrice, gen.now, currentIds.price,
                        gen.draws)
     IN  /\ gen' = [gen EXCEPT !.i = gen.i - 1, !.basePrice = g.basePrice,
                                !.length = gen.length + 1, !.candle = g.candle]
         /\ currentIds' = [currentIds EXCEPT !.price = currentIds.price + 1]
  /\ UNCHANGED <<sessions, trades, journalEntries, forexPrices, ret, inFlight>>

-----------------------------------------------------------------------------
(* Price lookups *)

\* this.forexPrices.get(pair) || []
PricesOf(priceMap, pair) ==
  IF MapHas(priceMap, pair) THEN MapGet(priceMap, pair) ELSE <<>>

\* the candles of pair from startTime to endTime, both inclusive, both optional
ForexPrices(priceMap, pair, startTime, endTime) ==
  LET prices == PricesOf(priceMap, pair)
  IN  IF startTime = Undefined /\ endTime = Undefined THEN prices
      ELSE SelectSeq(prices, LAMBDA price :
             /\ ~(startTime # Undefined /\ price.timestamp.time < startTime.time)
             /\ ~(endTime # Undefined /\ price.timestamp.time > endTime.time))

getForexPrices(pair, startTime, endTime) ==
  /\ ret' = Return("getForexPrices",
                   [pair |-> pair, startTime |-> startTime, endTime |-> endTime],
                   "none", ForexPrices(forexPrices, pair, startTime, endTime))
  /\ UNCHANGED <<sessions, trades, journalEntries, forexPrices, currentIds, gen, inFlight>>

\* latestPrice.close read without the test of latestPrice
CurrentPriceUnguarded(priceMap, pair) ==
  LET prices == PricesOf(priceMap, pair)
  IN  IF Len(prices) = 0 THEN [threw |-> "TypeError"]
      ELSE parseFloat(prices[Len(prices)].close)

CurrentPrice(priceMap, pair) ==
  LET prices == PricesOf(priceMap, pair)
      latestPrice == IF Len(prices) = 0 THEN Undefined ELSE prices[Len(prices)]
  IN  IF latestPrice = Undefined THEN Undefined ELSE parseFloat(latestPrice.close)

\* getCurrentPrice taking the latest candle off the series
getCurrentPricePop(pair) ==
  /\ ret' = Return("getCurrentPrice", [pair |-> pair], "none",
                   CurrentPrice(forexPrices, pair))
  /\ forexPrices' =
       IF MapHas(forexPrices, pair) /\ Len(MapGet(forexPrices, pair)) > 0
       THEN MapSet(forexPrices, pair,
                   SubSeq(MapGet(forexPrices, pair), 1,
                          Len(MapGet(forexPrices, pair)) - 1))
       ELSE forexPrices
  /\ UNCHANGED <<sessions, trades, journalEntries, currentIds, gen, inFlight>>

getCurrentPrice(pair) ==
  /\ ret' = Return("getCurrentPrice", [pair |-> pair], "none",
                   CurrentPrice(forexPrices, pair))
  /\ UNCHANGED <<sessions, trades, journalEntries, forexPrices, currentIds, gen, inFlight>>

Infinity == [infinity |-> TRUE]

\* the scan taking a candle that is as near as the nearest so far
ScanStepLastWins(acc, price, timestamp) ==
  LET timeDiff == Abs(price.timestamp.time - timestamp.time)
  IN  IF acc.minTimeDiff = Infinity \/ timeDiff <= acc.minTimeDiff.diff
      THEN [closestPrice |-> price, minTimeDiff |-> [diff |-> timeDiff]]
      ELSE acc

\* one turn of the scan: a candle strictly nearer than the nearest so far
\* replaces it
ScanStep(acc, price, timestamp) ==
  LET timeDiff == Abs(price.timestamp.time - timestamp.time)
  IN  IF acc.minTimeDiff = Infinity \/ timeDiff < acc.minTimeDiff.diff
      THEN [closestPrice |-> price, minTimeDiff |-> [diff |-> timeDiff]]
      ELSE acc

RECURSIVE Scan(_, _, _, _)
Scan(prices, j, acc, timestamp) ==
  IF j > Len(prices) THEN acc
  ELSE Scan(prices, j + 1, ScanStep(acc, prices[j], timestamp), timestamp)

HistoricalPrice(priceMap, pair, timestamp) ==
  LET prices == PricesOf(priceMap, pair)
      found == Scan(prices, 1, [closestPrice |-> Null, minTimeDiff |-> Infinity],
                    timestamp)
  IN  IF found.closestPrice = Null THEN Undefined
      ELSE parseFloat(found.closestPrice.close)

getHistoricalPrice(pair, timestamp) ==
  /\ ret' = Return("getHistoricalPrice", [pair |-> pair, timestamp |-> timestamp],
                   "none", HistoricalPrice(forexPrices, pair, timestamp))
  /\ UNCHANGED <<sessions, trades, journalEntries, forexPrices, currentIds, gen, inFlight>>

-----------------------------------------------------------------------------
(* The session clock *)

updateSession(id, updates, at) ==
  LET session == MapGet(sessions, id)
      args == [id |-> id, updates |-> updates, now |-> at]
      updatedSession == Spread(Spread(session, updates), [updatedAt |-> at])
  IN  /\ IF session = Undefined
         THEN /\ ret' = Return("updateSession", args, "none", Undefined)
              /\ UNCHANGED sessions
         ELSE /\ sessions' = MapSet(sessions, id, updatedSession)
              /\ ret' = Return("updateSession", args, "none", updatedSession)
      /\ UNCHANGED <<trades, journalEntries, forexPrices, currentIds, gen, inFlight>>

\* setSessionTime that never moves the clock back
setSessionTimeForward(sessionId, timestamp, at) ==
  LET session == MapGet(sessions, sessionId)
      args == [sessionId |-> sessionId, timestamp |-> timestamp, now |-> at]
      updatedSession ==
        Spread(session,
               [currentTime |-> IF session.currentTime # Null
                                   /\ timestamp.time < session.currentTime.time
                                THEN session.currentTime ELSE timestamp,
                updatedAt |-> at])
  IN  /\ IF session = Undefined
         THEN /\ ret' = Return("setSessionTime", args, "none", Undefined)
              /\ UNCHANGED sessions
         ELSE /\ sessions' = MapSet(sessions, sessionId, updatedSession)
              /\ ret' = Return("setSessionTime", args, "none", updatedSession)
      /\ UNCHANGED <<trades, journalEntries, forexPrices, currentIds, gen, inFlight>>

setSessionTime(sessionId, timestamp, at) ==
  LET session == MapGet(sessions, sessionId)
      args == [sessionId |-> sessionId, timestamp |-> timestamp, now |-> at]
      updatedSession == Spread(session, [currentTime |-> timestamp, updatedAt |-> at])
  IN  /\ IF session = Undefined
         THEN /\ ret' = Return("setSessionTime", args, "none", Undefined)
              /\ UNCHANGED sessions
         ELSE /\ sessions' = MapSet(sessions, sessionId, updatedSession)
              /\ ret' = Return("setSessionTime", args, "none", updatedSession)
      /\ UNCHANGED <<trades, journalEntries, forexPrices, currentIds, gen, inFlight>>

\* the clock moved forward only: a negative count of minutes leaves it
AdvancedTimeForward(currentTime, minutes) ==
  IF minutes < 0 THEN currentTime ELSE Date(currentTime.time + minutes)

\* new Date(currentTime.getTime() + minutes * 60 * 1000)
AdvancedTime(currentTime, minutes) == Date(currentTime.time + minutes)

\* the instants the model lets a session clock reach
ClockRange == (-ThirtyDays - MaxDrift * 60)..(-ThirtyDays + MaxDrift * 60)

\* advanceSessionTime over one clock shared by the sessions: every session
\* that has a clock moves with the session named
advanceSessionTimeShared(sessionId, minutes, at) ==
  LET session == MapGet(sessions, sessionId)
      args == [sessionId |-> sessionId, minutes |-> minutes, now |-> at]
      Moved(s) == IF s.currentTime = Null THEN s
                  ELSE Spread(s, [currentTime |-> AdvancedTime(s.currentTime, minutes),
                                  updatedAt |-> at])
  IN  /\ IF session = Undefined
         THEN /\ ret' = Return("advanceSessionTime", args, "none", Undefined)
              /\ UNCHANGED sessions
         ELSE IF session.currentTime = Null
         THEN /\ ret' = Return("advanceSessionTime", args, "none", Undefined)
              /\ UNCHANGED sessions
         ELSE /\ AdvancedTime(session.currentTime, minutes).time \in ClockRange
              /\ sessions' = [i \in 1..Len(sessions) |->
                                [key |-> sessions[i].key, value |-> Moved(sessions[i].value)]]
              /\ ret' = Return("advanceSessionTime", args, "none", Moved(session))
      /\ UNCHANGED <<trades, journalEntries, forexPrices, currentIds, gen>>
      /\ inFlight' = Resolved("advanceSessionTime", [sessionId |-> sessionId, minutes |-> minutes],
                             ret'.result)

\* advanceSessionTime that stamps updatedAt on a session it cannot advance
advanceSessionTimeTouching(sessionId, minutes, at) ==
  LET session == MapGet(sessions, sessionId)
      args == [sessionId |-> sessionId, minutes |-> minutes, now |-> at]
  IN  /\ IF session = Undefined
         THEN /\ ret' = Return("advanceSessionTime", args, "none", Undefined)
              /\ UNCHANGED sessions
         ELSE IF session.currentTime = Null
         THEN /\ ret' = Return("advanceSessionTime", args, "none", Undefined)
              /\ sessions' = MapSet(sessions, sessionId, Spread(session, [updatedAt |-> at]))
         ELSE LET newTime == AdvancedTime(session.currentTime, minutes)
                  updatedSession ==
                    Spread(session, [currentTime |-> newTime, updatedAt |-> at])
              IN  /\ newTime.time \in ClockRange
                  /\ sessions' = MapSet(sessions, sessionId, updatedSession)
                  /\ ret' = Return("advanceSessionTime", args, "none", updatedSession)
      /\ UNCHANGED <<trades, journalEntries, forexPrices, currentIds, gen>>
      /\ inFlight' = Resolved("advanceSessionTime", [sessionId |-> sessionId, minutes |-> minutes],
                             ret'.result)

advanceSessionTime(sessionId, minutes, at) ==
  LET session == MapGet(sessions, sessionId)
      args == [sessionId |-> sessionId, minutes |-> minutes, now |-> at]
  IN  /\ IF session = Undefined
         THEN /\ ret' = Return("advanceSessionTime", args, "none", Undefined)
              /\ UNCHANGED sessions
         ELSE IF session.currentTime = Null
         THEN /\ ret' = Return("advanceSessionTime", args, "none", Undefined)
              /\ UNCHANGED sessions
         ELSE LET newTime == AdvancedTime(session.currentTime, minutes)
                  updatedSession ==
                    Spread(session, [currentTime |-> newTime, updatedAt |-> at])
              IN  /\ newTime.time \in ClockRange
                  /\ sessions' = MapSet(sessions, sessionId, updatedSession)
                  /\ ret' = Return("advanceSessionTime", args, "none", updatedSession)
      /\ UNCHANGED <<trades, journalEntries, forexPrices, currentIds, gen>>
      /\ inFlight' = Resolved("advanceSessionTime", [sessionId |-> sessionId, minutes |-> minutes],
                             ret'.result)

-----------------------------------------------------------------------------
(* Trade list and journal methods *)

getTradesBySessionId(sessionId) ==
  /\ ret' = Return("getTradesBySessionId", [sessionId |-> sessionId], "none",
                   TradesBySessionId(trades, sessionId))
  /\ UNCHANGED <<sessions, trades, journalEntries, forexPrices, currentIds, gen, inFlight>>

NewJournalEntry(id, insertEntry, at) ==
  [id |-> id,
   sessionId |-> insertEntry.sessionId,
   tradeId |-> Coalesce(insertEntry, "tradeId", Null),
   title |-> insertEntry.title,
   content |-> insertEntry.content,
   createdAt |-> at]

createJournalEntry(insertEntry, at) ==
  LET id == currentIds.journal
      entry == NewJournalEntry(id, insertEntry, at)
  IN  /\ currentIds' = [currentIds EXCEPT !.journal = id + 1]
      /\ journalEntries' = MapSet(journalEntries, id, entry)
      /\ ret' = Return("createJournalEntry", [insertEntry |-> insertEntry], "none", entry)
      /\ UNCHANGED <<sessions, trades, forexPrices, gen, inFlight>>

updateJournalEntry(id, updates) ==
  LET entry == MapGet(journalEntries, id)
      args == [id |-> id, updates |-> updates]
  IN  /\ IF entry = Undefined
         THEN /\ ret' = Return("updateJournalEntry", args, "none", Undefined)
              /\ UNCHANGED journalEntries
         ELSE /\ journalEntries' = MapSet(journalEntries, id, Spread(entry, updates))
              /\ ret' = Return("updateJournalEntry", args, "none", Spread(entry, updates))
      /\ UNCHANGED <<sessions, trades, forexPrices, currentIds, gen, inFlight>>

deleteJournalEntry(id) ==
  /\ journalEntries' = MapDelete(journalEntries, id)
  /\ ret' = Return("deleteJournalEntry", [id |-> id], "none",
                   [bool |-> MapHas(journalEntries, id)])
  /\ UNCHANGED <<sessions, trades, forexPrices, currentIds, gen, inFlight>>

-----------------------------------------------------------------------------
(* Specification of the store *)

\* The counters of currentIds grow without limit; every specification lets a
\* create method run only while its counter is within the bound.
SessionsLeft == currentIds.session <= MaxSessions
TradesLeft == currentIds.trade <= MaxTrades
JournalLeft == currentIds.journal <= MaxJournal

Next ==
  \/ \E insertSession \in InsertSessions, at \in WallClock :
        SessionsLeft /\ createSession(insertSession, at)
  \/ \E id \in SessionIds : deleteSession(id)
  \/ \E insertTrade \in InsertTrades, at \in WallClock :
        TradesLeft /\ createTrade(insertTrade, at)
  \/ \E id \in TradeIds, updates \in TradeUpdates : updateTrade(id, updates)
  \/ \E id \in TradeIds, c \in CloseArgs : closeTrade(id, c.exitPrice, c.closedAt)
  \/ \E sessionId \in SessionIds : getSessionStats(sessionId)

Spec == Init /\ [][Next]_vars

\* the store with the patches of updateTrade that touch the price fields
NextPatch ==
  \/ Next
  \/ \E id \in TradeIds, updates \in PriceUpdates : updateTrade(id, updates)

SpecPatch == Init /\ [][NextPatch]_vars

-----------------------------------------------------------------------------
(* Specification of the analytics: getSessionStats applied to the trade    *)
(* maps that up to MaxStatTrades createTrade calls, each followed by at    *)
(* most one closeTrade or updateTrade call, leave in the store             *)

StatSessionIds == {1, 2}

\* entry 1.1000, size 1.00, BUY: the exits 1.101, 1.097, 1.1005 and 1.1 realize
\* +100.00, -300.00, +50.00 and 0.00
StatInserts ==
  { [sessionId |-> s, currencyPair |-> Pair, type |-> "BUY",
     positionSize |-> Dec(100, 2), entryPrice |-> Dec(11000, 4)] :
      s \in StatSessionIds }

StatExits == { Norm(1101, 3), Norm(1097, 3), Norm(11005, 4), Norm(11, 1) }

StatCalls ==
  { [kind |-> "none"], [kind |-> "updateTrade", updates |-> [status |-> "CLOSED"]] }
  \cup { [kind |-> "closeTrade", exitPrice |-> x] : x \in StatExits }

StatTrade(id, insertTrade, call) ==
  LET trade == NewTrade(id, insertTrade, Date(0))
  IN  CASE call.kind = "none" -> trade
        [] call.kind = "updateTrade" -> UpdatedTrade(trade, call.updates)
        [] call.kind = "closeTrade" -> ClosedTrade(trade, call.exitPrice, Date(1))

StatsInit ==
  /\ \E n \in 0..MaxStatTrades :
       \E ins \in [1..n -> StatInserts], calls \in [1..n -> StatCalls] :
          /\ trades = [i \in 1..n |->
                         [key |-> i, value |-> StatTrade(i, ins[i], calls[i])]]
          /\ currentIds = [user |-> 1, session |-> 1, trade |-> n + 1,
                           journal |-> 1, price |-> Len(pairs) + 1]
  /\ sessions = <<>>
  /\ journalEntries = <<>>
  /\ forexPrices = SeedPrices
  /\ gen = GenDone
  /\ ret = [op |-> "new", args |-> Null, prev |-> "none", result |-> Undefined]
  /\ inFlight = <<>>

StatsNext == \E sessionId \in StatSessionIds : getSessionStats(sessionId)

SpecStats == StatsInit /\ [][StatsNext]_vars

-----------------------------------------------------------------------------
(* Specification of the trade list: trades of two sessions are created,    *)
(* closed, updated and listed                                              *)

ListInserts ==
  { [sessionId |-> s, currencyPair |-> Pair, type |-> "BUY",
     positionSize |-> Dec(100, 2), entryPrice |-> Dec(11000, 4)] :
      s \in StatSessionIds }

\* patches of updateTrade: the status, and the session the trade belongs to
ListUpdates == TradeUpdates \cup { [sessionId |-> 2] }

ListClose == [exitPrice |-> Norm(1105, 3), closedAt |-> Date(1)]

ListNext ==
  \/ \E insertTrade \in ListInserts, at \in WallClock :
        TradesLeft /\ createTrade(insertTrade, at)
  \/ \E id \in TradeIds, updates \in ListUpdates : updateTrade(id, updates)
  \/ \E id \in TradeIds : closeTrade(id, ListClose.exitPrice, ListClose.closedAt)
  \/ \E sessionId \in StatSessionIds : getTradesBySessionId(sessionId)

SpecList == Init /\ [][ListNext]_vars

-----------------------------------------------------------------------------
(* Specification of the price lookups: the constructor has generated the   *)
(* series from some draws, and the lookups are called                      *)

\* the draws of a candle: the middle ones and the extremes
CandleDraws ==
  { MidDraw,
    Draw(999, 999, 0, 999, 0, 999, 999),
    Draw(0, 0, 999, 0, 999, 0, 0) }

\* an instrument with a series at either scale of price, and one without
LookupPairs == { "EUR/USD", "USD/JPY", "XAU/USD" }

\* instants on the candles, between them, at the midpoints, before the first
\* candle and after the last
LookupTimes ==
  { Date(o - 60 * h) : h \in 0..MaxCandles, o \in {0, 15, 30, 45} }

LookupBounds == { Undefined, Date(-60) }

ForexInit ==
  /\ sessions = <<>>
  /\ trades = <<>>
  /\ journalEntries = <<>>
  /\ \E now \in WallClock, draws \in [1..MaxCandles -> CandleDraws] :
        forexPrices = initializeForexData(now, MaxCandles, draws)
  /\ currentIds = [user |-> 1, session |-> 1, trade |-> 1, journal |-> 1,
                   price |-> Len(pairs) * MaxCandles + 1]
  /\ gen = GenDone
  /\ ret = [op |-> "new", args |-> Null, prev |-> "none", result |-> Undefined]
  /\ inFlight = <<>>

ForexNext ==
  \/ \E pair \in LookupPairs, startTime \in LookupBounds, endTime \in LookupBounds :
        getForexPrices(pair, startTime, endTime)
  \/ \E pair \in LookupPairs : getCurrentPrice(pair)
  \/ \E pair \in LookupPairs, timestamp \in LookupTimes :
        getHistoricalPrice(pair, timestamp)

SpecForex == ForexInit /\ [][ForexNext]_vars

-----------------------------------------------------------------------------
(* Specification of the generator: the loop of initializeForexData over    *)
(* the hoursOfData hours of one instrument, the series of the instruments  *)
(* before it left out of the Map                                           *)

\* draws that push the price up, draws that push it down, the middle draws,
\* the largest draws with the open at the low, the smallest change with no
\* spread
WalkDraws ==
  { Draw(900, 999, 0, 500, 999, 500, 500),
    Draw(100, 0, 999, 500, 0, 500, 500),
    MidDraw,
    Draw(999, 999, 999, 0, 999, 999, 999),
    Draw(0, 0, 0, 999, 0, 0, 0) }

WalkInit ==
  /\ sessions = <<>>
  /\ trades = <<>>
  /\ journalEntries = <<>>
  /\ forexPrices = <<>>
  /\ \E p \in 1..Len(pairs), now \in WallClock, draws \in WalkDraws :
        /\ gen = GenStart(pairs[p], now, draws)
        /\ currentIds = [user |-> 1, session |-> 1, trade |-> 1, journal |-> 1,
                         price |-> (p - 1) * hoursOfData + 1]
  /\ ret = [op |-> "new", args |-> Null, prev |-> "none", result |-> Undefined]
  /\ inFlight = <<>>

WalkNext == generateCandle

SpecWalk == WalkInit /\ [][WalkNext]_vars

-----------------------------------------------------------------------------
(* Specification of the session clock: sessions are created, deleted and   *)
(* updated, and their clocks set and advanced                              *)

\* the instants new Date() returns to the clock methods
ClockNow == { Date(0), Date(1) }

\* an instant before and an instant after the first clock of a session
SetTargets == { Date(-ThirtyDays - 60), Date(-ThirtyDays + 60) }

\* signed counts of minutes
AdvanceMinutes == { -60, 90 }

\* Partial<Session> that takes the clock away
SessionUpdates == { [currentTime |-> Null] }

ClockNext ==
  \/ \E insertSession \in InsertSessions, at \in WallClock :
        SessionsLeft /\ createSession(insertSession, at)
  \/ \E id \in SessionIds : deleteSession(id)
  \/ \E id \in SessionIds, updates \in SessionUpdates, at \in ClockNow :
        updateSession(id, updates, at)
  \/ \E sessionId \in SessionIds, timestamp \in SetTargets, at \in ClockNow :
        setSessionTime(sessionId, timestamp, at)
  \/ \E sessionId \in SessionIds, minutes \in AdvanceMinutes, at \in ClockNow :
        advanceSessionTime(sessionId, minutes, at)

SpecClock == Init /\ [][ClockNext]_vars

-----------------------------------------------------------------------------
(* Specification of the whole store: every method of the sessions, the     *)
(* trades, the journal, the lookups and the analytics, on a store that     *)
(* holds at most one session, one trade and one journal entry at a time    *)

JournalIds == 1..(MaxJournal + 1)

\* InsertJournalEntry records and Partial<JournalEntry> bodies
InsertEntries == { [sessionId |-> 1, title |-> Text("t"), content |-> Text("c")] }
JournalUpdates == { [content |-> Text("d")] }

AllNext ==
  \/ \E insertSession \in InsertSessions, at \in WallClock :
        SessionsLeft /\ Len(sessions) = 0 /\ createSession(insertSession, at)
  \/ \E id \in SessionIds : deleteSession(id)
  \/ \E id \in SessionIds, updates \in SessionUpdates, at \in WallClock :
        updateSession(id, updates, at)
  \/ \E sessionId \in SessionIds, at \in WallClock :
        setSessionTime(sessionId, Date(-ThirtyDays + 60), at)
  \/ \E sessionId \in SessionIds, at \in WallClock :
        advanceSessionTime(sessionId, 90, at)
  \/ \E insertTrade \in ListInserts, at \in WallClock :
        TradesLeft /\ Len(trades) = 0 /\ insertTrade.sessionId = 1
          /\ createTrade(insertTrade, at)
  \/ \E id \in TradeIds, updates \in TradeUpdates : updateTrade(id, updates)
  \/ \E id \in TradeIds : closeTrade(id, ListClose.exitPrice, ListClose.closedAt)
  \/ getTradesBySessionId(1)
  \/ getSessionStats(1)
  \/ \E insertEntry \in InsertEntries, at \in WallClock :
        JournalLeft /\ Len(journalEntries) = 0 /\ createJournalEntry(insertEntry, at)
  \/ \E id \in JournalIds, updates \in JournalUpdates : updateJournalEntry(id, updates)
  \/ \E id \in JournalIds : deleteJournalEntry(id)
  \/ getForexPrices(Pair, Undefined, Date(0))
  \/ getCurrentPrice(Pair)
  \/ getHistoricalPrice(Pair, Date(0))

SpecAll == Init /\ [][AllNext]_vars

-----------------------------------------------------------------------------
(* Properties of the trade ledger *)

StoredTrades == { trades[i].value : i \in 1..Len(trades) }

\* a number of at most eight fraction digits, in units of 10^-8
AtScale8(x) == x.n * Pow10(8 - x.k)

\* (exit - entry) * size * 100000 for a BUY, (entry - exit) * size * 100000 for a
\* SELL, in thousandths of a cent, from the printed entry price and size
ExactPnlMilliCents(type, entryPrice, positionSize, exitPrice) ==
  LET entry8 == entryPrice.m * Pow10(8 - entryPrice.e)
      size2 == positionSize.m * Pow10(2 - positionSize.e)
      exit8 == AtScale8(exitPrice)
      diff8 == IF type = "BUY" THEN exit8 - entry8 ELSE entry8 - exit8
  IN  diff8 * size2 * (LotSize \div Pow10(5))

\* pnl is milliCents rounded to two decimals: a two-digit string within half a
\* cent of it
RoundedTo2(pnl, milliCents) ==
  /\ pnl # Null
  /\ pnl.e = 2
  /\ 2 * Abs(1000 * pnl.m - milliCents) <= 1000

\* C1: every stored trade is OPEN with exitPrice and pnl null, or CLOSED with
\* exitPrice, pnl and closedAt set.
TradeShapes ==
  \A t \in StoredTrades :
     \/ t.status = "OPEN" /\ t.exitPrice = Null /\ t.pnl = Null
     \/ t.status = "CLOSED" /\ t.exitPrice # Null /\ t.pnl # Null /\ t.closedAt # Null

\* C2: closeTrade on an existing trade stores and returns the trade CLOSED with
\* the given exitPrice and closedAt and with pnl the BUY resp. SELL formula
\* rounded to two decimals; entry 1.1000, exit 1.1050, size 1.00 gives 500.00
\* for a BUY and -500.00 for a SELL.
CloseTradePnl ==
  (ret.op = "closeTrade" /\ ret.result # Undefined) =>
     LET t == ret.result
     IN  /\ MapGet(trades, ret.args.id) = t
         /\ t.status = "CLOSED"
         /\ t.exitPrice # Null
         /\ parseFloat(t.exitPrice) = ret.args.exitPrice
         /\ t.closedAt = ret.args.closedAt
         /\ RoundedTo2(t.pnl, ExactPnlMilliCents(t.type, t.entryPrice,
                                                 t.positionSize, ret.args.exitPrice))
         /\ (/\ t.entryPrice = Dec(11000, 4)
             /\ t.positionSize = Dec(100, 2)
             /\ ret.args.exitPrice = Norm(11050, 4))
            => t.pnl = IF t.type = "BUY" THEN Dec(50000, 2) ELSE Dec(-50000, 2)

CloseTradePnlWitness ==
  /\ ret.op = "closeTrade"
  /\ ret.result # Undefined
  /\ ret.result.type = "SELL"
  /\ ret.result.entryPrice = Dec(11000, 4)
  /\ ret.args.exitPrice = Norm(11050, 4)
  /\ ret.result.pnl = Dec(-50000, 2)

\* C3: a CLOSED trade stays CLOSED and keeps its exitPrice, pnl and closedAt in
\* every step.
ClosedIsFinal ==
  [][\A id \in MapKeys(trades) :
        MapGet(trades, id).status = "CLOSED" =>
           /\ MapGet(trades', id).status = "CLOSED"
           /\ MapGet(trades', id).exitPrice = MapGet(trades, id).exitPrice
           /\ MapGet(trades', id).pnl = MapGet(trades, id).pnl
           /\ MapGet(trades', id).closedAt = MapGet(trades, id).closedAt]_vars

\* C4: closeTrade on a trade that is already CLOSED returns the trade, which
\* stays CLOSED, keeps its entryPrice and positionSize, and gets the new
\* exitPrice and closedAt and the pnl recomputed from them.
RecloseOverwrites ==
  [][(ret'.op = "closeTrade" /\ ret'.prev = "CLOSED") =>
        LET old == MapGet(trades, ret'.args.id)
            new == MapGet(trades', ret'.args.id)
        IN  /\ old # Undefined
            /\ ret'.result # Undefined
            /\ ret'.result = new
            /\ new.status = "CLOSED"
            /\ new.entryPrice = old.entryPrice
            /\ new.positionSize = old.positionSize
            /\ new.exitPrice = toString(ret'.args.exitPrice)
            /\ new.closedAt = ret'.args.closedAt
            /\ RoundedTo2(new.pnl, ExactPnlMilliCents(old.type, old.entryPrice,
                                      old.positionSize, ret'.args.exitPrice))]_vars

RecloseWitness ==
  /\ ret.op = "closeTrade"
  /\ ret.prev = "CLOSED"
  /\ ret.result # Undefined
  /\ ret.result.status = "CLOSED"
  /\ ret.result.closedAt = Date(2)
  /\ ret.result.pnl = Dec(-7, 2)

\* C5: entryPrice and positionSize of a stored trade change in no step.
EntryAndSizeFixed ==
  [][\A id \in MapKeys(trades) :
        /\ MapGet(trades', id).entryPrice = MapGet(trades, id).entryPrice
        /\ MapGet(trades', id).positionSize = MapGet(trades, id).positionSize]_vars

\* C6: the trade createTrade stores and returns is OPEN with exitPrice, pnl and
\* closedAt null, whatever the input carries.
CreateTradeOpens ==
  ret.op = "createTrade" =>
     /\ MapGet(trades, ret.result.id) = ret.result
     /\ ret.result.status = "OPEN"
     /\ ret.result.exitPrice = Null
     /\ ret.result.pnl = Null
     /\ ret.result.closedAt = Null

CreateTradeOpensWitness ==
  /\ ret.op = "createTrade"
  /\ "status" \in DOMAIN ret.args.insertTrade
  /\ ret.args.insertTrade.status = "CLOSED"
  /\ MapGet(trades, ret.result.id).status = "OPEN"

\* C7: closeTrade with an id that is not in the store returns undefined and
\* changes no trade, no session and no id counter.
CloseMissingIsNoOp ==
  [][(ret'.op = "closeTrade" /\ ~MapHas(trades, ret'.args.id)) =>
        /\ ret'.result = Undefined
        /\ UNCHANGED <<trades, sessions, currentIds>>]_vars

CloseMissingWitness ==
  /\ ret.op = "closeTrade"
  /\ ret.result = Undefined
  /\ ~MapHas(trades, ret.args.id)
  /\ Len(trades) = MaxTrades
  /\ Len(sessions) > 0

-----------------------------------------------------------------------------
(* Properties of the analytics *)

\* a number of at most two fraction digits, in cents
Cents(x) == x.n * Pow10(2 - x.k)

\* the positions in the store of the CLOSED trades of a session
ClosedAt(sessionId) ==
  { i \in 1..Len(trades) :
       /\ trades[i].value.sessionId = sessionId
       /\ trades[i].value.status = "CLOSED" }

\* the pnl of the CLOSED trades of a session in store order, in cents
ClosedPnlCents(sessionId) ==
  LET c == SelectSeq(trades, LAMBDA en : /\ en.value.sessionId = sessionId
                                         /\ en.value.status = "CLOSED")
  IN  [i \in 1..Len(c) |->
         IF c[i].value.pnl = Null THEN 0 ELSE Cents(parseFloat(c[i].value.pnl))]

RECURSIVE RunningCents(_, _)
RunningCents(p, j) == IF j = 0 THEN 0 ELSE RunningCents(p, j - 1) + p[j]

Maximum(S) == CHOOSE x \in S : \A y \in S : y <= x

PeakCents(p, j) == Maximum({ RunningCents(p, i) : i \in 0..j })

MaxDrawdownCents(p) ==
  Maximum({ PeakCents(p, j) - RunningCents(p, j) : j \in 0..Len(p) })

\* C8: maxDrawdown is the largest peak - runningPnL over the walk of the closed
\* trades in store order, runningPnL and peak starting at 0, and totalPnL is
\* the final runningPnL; pnls [+100, -300, +50] give maxDrawdown 300,
\* totalPnL -150, winningTrades 2, losingTrades 1.
DrawdownWalk ==
  ret.op = "getSessionStats" =>
     LET p == ClosedPnlCents(ret.args.sessionId)
         r == ret.result
     IN  /\ r.maxDrawdown = Norm(MaxDrawdownCents(p), 2)
         /\ r.totalPnL = Norm(RunningCents(p, Len(p)), 2)
         /\ p = <<10000, -30000, 5000>> =>
               /\ r.maxDrawdown = Int2Num(300)
               /\ r.totalPnL = Int2Num(-150)
               /\ r.winningTrades = 2
               /\ r.losingTrades = 1

DrawdownWalkWitness ==
  /\ ret.op = "getSessionStats"
  /\ ClosedPnlCents(ret.args.sessionId) = <<10000, -30000, 5000>>
  /\ ret.result.maxDrawdown = Int2Num(300)

\* C9: totalTrades is the number of CLOSED trades of the session, a closed
\* trade counts as winning when its pnl > 0 and as losing otherwise, the two
\* counts add up to totalTrades, and the OPEN trades change no output field.
CountsOnlyClosed ==
  ret.op = "getSessionStats" =>
     LET sid == ret.args.sessionId
         r == ret.result
         wins == { i \in ClosedAt(sid) :
                      /\ trades[i].value.pnl # Null
                      /\ trades[i].value.pnl.m > 0 }
     IN  /\ r.totalTrades = Cardinality(ClosedAt(sid))
         /\ r.winningTrades = Cardinality(wins)
         /\ r.losingTrades = Cardinality(ClosedAt(sid) \ wins)
         /\ r.winningTrades + r.losingTrades = r.totalTrades
         /\ r = SessionStats(SelectSeq(trades, LAMBDA en : en.value.status # "OPEN"),
                             sid)

CountsOnlyClosedWitness ==
  /\ ret.op = "getSessionStats"
  /\ \E i, j, k \in 1..Len(trades) :
        /\ trades[i].value.sessionId = ret.args.sessionId
        /\ trades[i].value.status = "OPEN"
        /\ j \in ClosedAt(ret.args.sessionId)
        /\ trades[j].value.pnl = Dec(0, 2)
        /\ k \in ClosedAt(ret.args.sessionId)
        /\ trades[k].value.pnl = Dec(10000, 2)
  /\ ret.result.totalTrades = 2
  /\ ret.result.losingTrades = 1

\* C10: with no closed trade winRate, avgTrade, totalTrades, totalPnL and
\* maxDrawdown are 0; with closed trades winRate is
\* winningTrades / totalTrades * 100 and avgTrade is totalPnL / totalTrades;
\* neither is ever the result of a division by zero.
NoDivisionByZero ==
  ret.op = "getSessionStats" =>
     LET n == Cardinality(ClosedAt(ret.args.sessionId))
         r == ret.result
     IN  /\ r.winRate # NaN
         /\ r.avgTrade # NaN
         /\ n = 0 =>
               /\ r.winRate = Zero
               /\ r.avgTrade = Zero
               /\ r.totalTrades = 0
               /\ r.totalPnL = Zero
               /\ r.maxDrawdown = Zero
         /\ n > 0 =>
               /\ r.winRate.num * n = 100 * r.winningTrades * r.winRate.den
               /\ r.avgTrade.num * 100 * n = Cents(r.totalPnL) * r.avgTrade.den

NoDivisionByZeroWitness ==
  /\ ret.op = "getSessionStats"
  /\ ClosedAt(ret.args.sessionId) = {}
  /\ \E i \in 1..Len(trades) :
        /\ trades[i].value.sessionId = ret.args.sessionId
        /\ trades[i].value.status = "OPEN"
  /\ ret.result.totalTrades = 0
  /\ ret.result.winRate = Zero

-----------------------------------------------------------------------------
(* Properties of the reads *)

\* C11: a call of getSessionStats changes no trade, no session, no journal
\* entry, no candle and no id counter, and a call that follows a call for the
\* same session with nothing in between returns the same record
StatsIsPureRead ==
  [][(ret'.op = "getSessionStats") =>
       /\ UNCHANGED <<sessions, trades, journalEntries, forexPrices, currentIds>>
       /\ (ret.op = "getSessionStats" /\ ret.args = ret'.args) =>
             ret'.result = ret.result]_vars

StatsIsPureReadWitness ==
  /\ ret.op = "getSessionStats"
  /\ ret.result.totalTrades > 0
  /\ Len(sessions) > 0

\* the ids of the trades of a session, in the order of the store
IdsOf(tradeMap, sessionId) ==
  LET listed == TradesBySessionId(tradeMap, sessionId)
  IN  [i \in 1..Len(listed) |-> listed[i].id]

\* a comes before b in ids
Precedes(ids, a, b) ==
  \E i, j \in 1..Len(ids) : i < j /\ ids[i] = a /\ ids[j] = b

\* C12: getTradesBySessionId returns each stored trade of the session once and
\* no other trade, the ids ascending as createTrade handed them out; after a
\* closeTrade or updateTrade call any two trades of a session's list that are
\* still in it stand in the order they had, and a call that does not move a
\* trade to another session leaves every list's order as a whole
ListedInCreationOrder ==
  [][(ret'.op = "getTradesBySessionId" =>
        LET listed == ret'.result
            listedOf == ret'.args.sessionId
        IN  /\ { listed[i] : i \in 1..Len(listed) } =
                 { trades'[i].value : i \in { j \in 1..Len(trades') :
                                                trades'[j].value.sessionId = listedOf } }
            /\ \A i, j \in 1..Len(listed) : i < j => listed[i].id < listed[j].id)
     /\ (ret'.op \in {"closeTrade", "updateTrade"} =>
          \A sessionId \in StatSessionIds :
             /\ \A a, b \in TradeIds :
                  ~(/\ Precedes(IdsOf(trades, sessionId), a, b)
                    /\ Precedes(IdsOf(trades', sessionId), b, a))
             /\ "sessionId" \notin DOMAIN Coalesce(ret'.args, "updates", Null) =>
                  IdsOf(trades', sessionId) = IdsOf(trades, sessionId))]_vars

ListedInCreationOrderWitness ==
  /\ ret.op = "getTradesBySessionId"
  /\ Len(ret.result) = 2
  /\ ret.result[1].status = "CLOSED"
  /\ ret.result[2].status = "OPEN"
  /\ "exitPrice" \in DOMAIN ret.result[2] /\ ret.result[2].exitPrice # Null

-----------------------------------------------------------------------------
(* Properties of the price lookups *)

\* the distance of candle j of prices from the instant
Distance(prices, j, timestamp) == Abs(prices[j].timestamp.time - timestamp.time)

\* the first of the candles of prices that are nearest to the instant
Nearest(prices, timestamp) ==
  CHOOSE j \in 1..Len(prices) :
    /\ \A k \in 1..Len(prices) :
         Distance(prices, j, timestamp) <= Distance(prices, k, timestamp)
    /\ \A k \in 1..(j - 1) :
         Distance(prices, j, timestamp) < Distance(prices, k, timestamp)

\* C13: for an instrument with a series getHistoricalPrice returns the close of
\* the candle nearest to the instant, of the earlier one of two candles equally
\* near, of the first candle for an instant before the series and of the last
\* candle for an instant after it
NearestClose ==
  (ret.op = "getHistoricalPrice" /\ PricesOf(forexPrices, ret.args.pair) # <<>>) =>
    LET prices == PricesOf(forexPrices, ret.args.pair)
        timestamp == ret.args.timestamp
    IN  /\ ret.result = parseFloat(prices[Nearest(prices, timestamp)].close)
        /\ timestamp.time <= prices[1].timestamp.time =>
             ret.result = parseFloat(prices[1].close)
        /\ timestamp.time >= prices[Len(prices)].timestamp.time =>
             ret.result = parseFloat(prices[Len(prices)].close)

\* an instant halfway between two candles of different closes
NearestCloseWitness ==
  /\ ret.op = "getHistoricalPrice"
  /\ LET prices == PricesOf(forexPrices, ret.args.pair)
     IN  \E j \in 1..(Len(prices) - 1) :
            /\ Distance(prices, j, ret.args.timestamp) =
                 Distance(prices, j + 1, ret.args.timestamp)
            /\ prices[j].close # prices[j + 1].close
            /\ ret.result = parseFloat(prices[j].close)

\* C14: for an instrument without a series getForexPrices returns the empty
\* list, getCurrentPrice and getHistoricalPrice return undefined, and the call
\* leaves the store as it was
UnknownPairIsEmpty ==
  [][(/\ ret'.op \in {"getForexPrices", "getCurrentPrice", "getHistoricalPrice"}
      /\ ~MapHas(forexPrices, ret'.args.pair)) =>
     (/\ IF ret'.op = "getForexPrices" THEN ret'.result = <<>>
         ELSE ret'.result = Undefined
      /\ UNCHANGED <<sessions, trades, journalEntries, forexPrices, currentIds>>)]_vars

UnknownPairIsEmptyWitness ==
  /\ ret.op = "getCurrentPrice"
  /\ ret.args.pair = "XAU/USD"
  /\ ~MapHas(forexPrices, "XAU/USD")
  /\ Len(forexPrices) = Len(pairs)
  /\ ret.result = Undefined

\* C18: no method of the sessions, the trades, the journal, the lookups or the
\* analytics adds, removes or changes a candle: the Map of the series stays
\* what the constructor left
SeriesImmutable == [][forexPrices' = forexPrices]_vars

\* a lookup on a store that holds a session, a closed trade and a journal entry
SeriesImmutableWitness ==
  /\ ret.op = "getCurrentPrice"
  /\ ret.result = parseFloat(MapGet(SeedPrices, Pair)[1].close)
  /\ forexPrices = SeedPrices
  /\ Len(sessions) = 1 /\ Len(journalEntries) = 1
  /\ Len(trades) = 1 /\ trades[1].value.status = "CLOSED"

-----------------------------------------------------------------------------
(* Properties of the generator *)

\* C15: every candle the generator pushes has low <= open, close <= high and
\* a volume that is not negative
CandleShape ==
  (gen.stage = "loop" /\ gen.candle # Null) =>
    LET candle == gen.candle
    IN  /\ candle.low.m <= candle.open.m /\ candle.low.m <= candle.close.m
        /\ candle.open.m <= candle.high.m /\ candle.close.m <= candle.high.m
        /\ { candle.low.e, candle.open.e, candle.close.e, candle.high.e } = {5}
        /\ candle.volume >= 0

\* a candle with a spread, the last one of a series
CandleShapeWitness ==
  /\ gen.stage = "loop" /\ gen.candle # Null
  /\ gen.i < 0
  /\ gen.candle.low.m < gen.candle.open.m
  /\ gen.candle.open.m < gen.candle.close.m
  /\ gen.candle.close.m <= gen.candle.high.m
  /\ gen.candle.volume > 0
  /\ gen.pair = "USD/JPY"

\* C16: the loop of an instrument pushes hoursOfData candles, each one hour
\* after the one before it, and the last one at the anchor instant
SeriesShape ==
  [][(gen'.length = gen.length + 1) =>
       /\ gen.candle # Null =>
            gen'.candle.timestamp.time = gen.candle.timestamp.time + 60
       /\ (gen'.i < 0) <=> (gen'.length = hoursOfData)
       /\ gen'.i < 0 => gen'.candle.timestamp = gen'.now]_vars

SeriesShapeWitness ==
  /\ gen.stage = "loop"
  /\ gen.i < 0
  /\ gen.length = hoursOfData
  /\ gen.candle.timestamp = gen.now
  /\ gen.pair = "EUR/JPY"

\* the close of a candle, in millionths
CloseOf(candle) == candle.close.m * 10

\* C17: the close of every candle is within 15% of the base price of its
\* instrument
BoundedDrift ==
  (gen.stage = "loop" /\ gen.candle # Null) =>
    Abs(CloseOf(gen.candle) - getBasePriceForPair(gen.pair))
      <= (getBasePriceForPair(gen.pair) \div 100) * 15

-----------------------------------------------------------------------------
(* Properties of the session clock *)

\* the fields of a session but its clock and its updatedAt
OtherFields(session) == DOMAIN session \ {"currentTime", "updatedAt"}

\* C19: setSessionTime on a stored session makes the given instant its
\* currentTime, earlier or later than the one before, and the instant of the
\* call its updatedAt; every other field of the session, every other session
\* and the rest of the store stay as they were
SetTimeReplaces ==
  [][(ret'.op = "setSessionTime" /\ MapHas(sessions, ret'.args.sessionId)) =>
       LET before == MapGet(sessions, ret'.args.sessionId)
           after == MapGet(sessions', ret'.args.sessionId)
       IN  /\ after.currentTime = ret'.args.timestamp
           /\ after.updatedAt = ret'.args.now
           /\ DOMAIN after = DOMAIN before
           /\ \A f \in OtherFields(before) : after[f] = before[f]
           /\ ret'.result = after
           /\ MapKeys(sessions') = MapKeys(sessions)
           /\ \A id \in MapKeys(sessions) \ {ret'.args.sessionId} :
                MapGet(sessions', id) = MapGet(sessions, id)
           /\ UNCHANGED <<trades, journalEntries, forexPrices, currentIds>>]_vars

\* the clock of a session set back behind its first instant, updatedAt moved
SetTimeReplacesWitness ==
  /\ ret.op = "setSessionTime"
  /\ ret.result # Undefined
  /\ ret.result.currentTime.time < ret.result.createdAt.time - ThirtyDays
  /\ ret.result.updatedAt # ret.result.createdAt
  /\ MapGet(sessions, ret.args.sessionId) = ret.result

\* counts of minutes of either sign, and none
SignedMinutes == { -90, -60, 0, 30, 60, 90 }

\* C20: advanceSessionTime on a stored session with a clock moves the clock by
\* the given minutes, of either sign; moving a clock by a and then by b gives
\* the instant that moving it once by a + b gives
AdvanceAdds ==
  [][(/\ ret'.op = "advanceSessionTime"
      /\ MapHas(sessions, ret'.args.sessionId)
      /\ MapGet(sessions, ret'.args.sessionId).currentTime # Null) =>
       LET before == MapGet(sessions, ret'.args.sessionId)
           after == MapGet(sessions', ret'.args.sessionId)
       IN  /\ after.currentTime.time = before.currentTime.time + ret'.args.minutes
           /\ ret'.result = after
           /\ \A a, b \in SignedMinutes :
                AdvancedTime(AdvancedTime(before.currentTime, a), b) =
                  AdvancedTime(before.currentTime, a + b)]_vars

\* a clock moved back
AdvanceAddsWitness ==
  /\ ret.op = "advanceSessionTime"
  /\ ret.result # Undefined
  /\ ret.args.minutes < 0
  /\ ret.result.currentTime.time < ret.result.createdAt.time - ThirtyDays
  /\ MapGet(sessions, ret.args.sessionId) = ret.result

-----------------------------------------------------------------------------
(* Clock calls that find nothing to move *)

\* the session a clock call names has no record, or none with a clock to advance
NothingToMove(op, args) ==
  \/ op \in {"setSessionTime", "advanceSessionTime"} /\ ~MapHas(sessions, args.sessionId)
  \/ /\ op = "advanceSessionTime"
     /\ MapHas(sessions, args.sessionId)
     /\ MapGet(sessions, args.sessionId).currentTime = Null

\* C21: setSessionTime and advanceSessionTime on a session id that is not in
\* the store, and advanceSessionTime on a session whose currentTime is unset,
\* return undefined and leave every map and counter of the store as it was.
MissingClockIsNoOp ==
  [][NothingToMove(ret'.op, ret'.args)
       => /\ ret'.result = Undefined
          /\ UNCHANGED <<sessions, trades, journalEntries, forexPrices, currentIds>>]_vars

\* advanceSessionTime answered undefined for a stored session whose clock is
\* unset, while another id has no record at all
MissingClockIsNoOpWitness ==
  /\ ret.op = "advanceSessionTime"
  /\ ret.result = Undefined
  /\ MapHas(sessions, ret.args.sessionId)
  /\ MapGet(sessions, ret.args.sessionId).currentTime = Null
  /\ ~MapHas(sessions, 2)

-----------------------------------------------------------------------------
(* Specification of session creation: requests with and without the
   backtesting fields, created at either reading of the clock, then advanced *)

\* InsertSession records: insertSessionSchema keeps currentTime, timeSpeed and
\* isBacktesting, and the backtest page sends a start instant of its own
CreateInserts ==
  InsertSessions
  \cup { Spread(insertSession,
                [isActive |-> TRUE, isBacktesting |-> TRUE,
                 currentTime |-> Date(-2 * ThirtyDays)]) :
           insertSession \in InsertSessions }
  \cup { Spread(insertSession,
                [currentTime |-> Null, timeSpeed |-> 5, isBacktesting |-> FALSE]) :
           insertSession \in InsertSessions }

CreateNext ==
  \/ \E insertSession \in CreateInserts, at \in ClockNow :
        SessionsLeft /\ createSession(insertSession, at)
  \/ \E id \in SessionIds : deleteSession(id)
  \/ \E sessionId \in SessionIds, minutes \in AdvanceMinutes, at \in WallClock :
        advanceSessionTime(sessionId, minutes, at)

SpecCreate == Init /\ [][CreateNext]_vars

\* C22: every session createSession returns has currentTime exactly 30 days
\* before its createdAt, timeSpeed 1 and isBacktesting true, whatever the
\* request carried, and is the record stored under its id; advanceSessionTime
\* called next on that session returns the session advanced from that clock.
FreshSessionClock ==
  [][/\ (ret'.op = "createSession"
           => /\ ret'.result.currentTime = Date(ret'.result.createdAt.time - ThirtyDays)
              /\ ret'.result.timeSpeed = 1
              /\ ret'.result.isBacktesting = TRUE
              /\ MapGet(sessions', ret'.result.id) = ret'.result)
     /\ ((ret.op = "createSession"
            /\ ret'.op = "advanceSessionTime"
            /\ ret'.args.sessionId = ret.result.id)
           => /\ ret'.result # Undefined
              /\ ret'.result.currentTime.time
                   = ret.result.createdAt.time - ThirtyDays + ret'.args.minutes)]_vars

\* a session created one minute after the epoch from a request that asked for
\* another clock has been advanced by 90 minutes from 30 days before its creation
FreshSessionClockWitness ==
  /\ ret.op = "advanceSessionTime"
  /\ ret.result # Undefined
  /\ ret.result.isActive = TRUE
  /\ ret.result.createdAt = Date(1)
  /\ ret.result.currentTime = Date(1 - ThirtyDays + 90)

-----------------------------------------------------------------------------
(* Specification of two session clocks over a series of several candles *)

\* the constructor's series with every draw at the top of its range, so that
\* each candle closes at another price
RisingPrices ==
  initializeForexData(Date(0), MaxCandles,
                      [h \in 1..MaxCandles |-> Draw(999, 999, 0, 999, 0, 999, 999)])

PairInit ==
  /\ sessions = <<>>
  /\ trades = <<>>
  /\ journalEntries = <<>>
  /\ forexPrices = RisingPrices
  /\ currentIds = [user |-> 1, session |-> 1, trade |-> 1, journal |-> 1,
                   price |-> Len(pairs) * MaxCandles + 1]
  /\ gen = GenDone
  /\ ret = [op |-> "new", args |-> Null, prev |-> "none", result |-> Undefined]
  /\ inFlight = <<>>

\* the instants of the candles, and the instants around the first clock
SeriesTargets == { Date(-60 * h) : h \in 0..(MaxCandles - 1) } \cup SetTargets

\* the ids of the two sessions, and an id without a record
PairSessionIds == 1..3

PairNext ==
  \/ \E insertSession \in InsertSessions, at \in WallClock :
        currentIds.session <= 2 /\ createSession(insertSession, at)
  \/ \E sessionId \in PairSessionIds, timestamp \in SeriesTargets, at \in WallClock :
        setSessionTime(sessionId, timestamp, at)
  \/ \E sessionId \in PairSessionIds, minutes \in AdvanceMinutes, at \in WallClock :
        advanceSessionTime(sessionId, minutes, at)

SpecPair == PairInit /\ [][PairNext]_vars

\* the price the current-price route resolves for a session: getHistoricalPrice
\* of the session's instrument at the session's currentTime
PriceAt(priceMap, session) ==
  HistoricalPrice(priceMap, session.currencyPair, session.currentTime)

\* C23: setSessionTime and advanceSessionTime on one session leave every other
\* session's record as it was, field by field, and with it the price that
\* getHistoricalPrice resolves at the other session's currentTime.
ClocksIndependent ==
  [][ret'.op \in {"setSessionTime", "advanceSessionTime"}
       => /\ MapKeys(sessions') = MapKeys(sessions)
          /\ \A id \in MapKeys(sessions) \ {ret'.args.sessionId} :
                /\ MapGet(sessions', id) = MapGet(sessions, id)
                /\ PriceAt(forexPrices', MapGet(sessions', id))
                     = PriceAt(forexPrices, MapGet(sessions, id))]_vars

\* session 1 has been advanced while session 2 stands on the candle one hour
\* before the latest, and the two clocks resolve to different prices
ClocksIndependentWitness ==
  /\ ret.op = "advanceSessionTime"
  /\ ret.result # Undefined
  /\ ret.args.sessionId = 1
  /\ MapHas(sessions, 2)
  /\ MapGet(sessions, 2).currentTime = Date(-60)
  /\ PriceAt(forexPrices, MapGet(sessions, 2)) # PriceAt(forexPrices, MapGet(sessions, 1))

-----------------------------------------------------------------------------
(* Specification of the id counters: records of the three kinds created, and
   sessions and journal entries deleted, in any order *)

IdsNext ==
  \/ \E insertSession \in InsertSessions, at \in WallClock :
        currentIds.session <= MaxSessions + 1 /\ createSession(insertSession, at)
  \/ \E id \in SessionIds : deleteSession(id)
  \/ \E insertTrade \in InsertTrades, at \in WallClock :
        TradesLeft /\ createTrade(insertTrade, at)
  \/ \E insertEntry \in InsertEntries, at \in WallClock :
        currentIds.journal <= MaxJournal + 1 /\ createJournalEntry(insertEntry, at)
  \/ \E id \in JournalIds : deleteJournalEntry(id)

SpecIds == Init /\ [][IdsNext]_vars

\* the create method of each counter of currentIds
CreateOp(counter) ==
  CASE counter = "session" -> "createSession"
    [] counter = "trade" -> "createTrade"
    [] counter = "journal" -> "createJournalEntry"
    [] OTHER -> "none"

\* a step of the create method of `counter`, over the Map `before` of its kind
AssignsFresh(counter, before) ==
  ret'.op = CreateOp(counter)
    => /\ ret'.result.id = currentIds[counter]
       /\ currentIds'[counter] > ret'.result.id
       /\ \A other \in DOMAIN currentIds \ {counter} :
             currentIds'[other] = currentIds[other]
       /\ \A id \in MapKeys(before) : id < ret'.result.id

\* C24: each kind of record takes its ids from its own counter, which no step
\* lowers: a created record gets the counter's value, above every id stored
\* and every id given out before, also after a deleteSession or a
\* deleteJournalEntry, and the counters of the other kinds stay as they were.
IdsNeverReused ==
  [][/\ \A counter \in DOMAIN currentIds : currentIds'[counter] >= currentIds[counter]
     /\ AssignsFresh("session", sessions)
     /\ AssignsFresh("trade", trades)
     /\ AssignsFresh("journal", journalEntries)]_vars

\* session 1 and journal entry 1 were deleted, session 2 and journal entry 2
\* were created after that, and two trades are stored
IdsNeverReusedWitness ==
  /\ MapKeys(sessions) = {2}
  /\ MapKeys(journalEntries) = {2}
  /\ MapKeys(trades) = {1, 2}
  /\ currentIds.session = 3
  /\ ret.op = "createSession"

-----------------------------------------------------------------------------
(* Reads for a session that has no record *)

\* what a read returns for a stored session that has no trades
EmptyResult(op, sessionId) ==
  IF op = "getTradesBySessionId" THEN TradesBySessionId(<<>>, sessionId)
  ELSE SessionStats(<<>>, sessionId)

\* C25: getTradesBySessionId and getSessionStats for an id that has no session
\* record (never created, or deleted) return something else than they return
\* for a stored session without trades, so that a caller can tell "not found"
\* from "empty".
MissingIsDistinct ==
  (/\ ret.op \in {"getTradesBySessionId", "getSessionStats"}
   /\ ~MapHas(sessions, ret.args.sessionId))
    => ret.result # EmptyResult(ret.op, ret.args.sessionId)

-----------------------------------------------------------------------------
(* Specification of the order of closing: the trades of one session, each
   closed once at its own exit price, in any order *)

OrderIds == 1..MaxStatTrades

\* entry 1.1000, size 1.00: trade i exits at 1.100 + i/1000, realizing
\* +100.00 * i as a BUY and -100.00 * i as a SELL
OrderExit(id) == Norm(1100 + id, 3)

OrderInit ==
  /\ \E types \in [OrderIds -> TradeTypes] :
        trades = [i \in OrderIds |->
                    [key |-> i,
                     value |-> NewTrade(i, [sessionId |-> 1, currencyPair |-> Pair,
                                            type |-> types[i],
                                            positionSize |-> Dec(100, 2),
                                            entryPrice |-> Dec(11000, 4)],
                                        Date(0))]]
  /\ currentIds = [user |-> 1, session |-> 1, trade |-> MaxStatTrades + 1,
                   journal |-> 1, price |-> Len(pairs) + 1]
  /\ sessions = <<>>
  /\ journalEntries = <<>>
  /\ forexPrices = SeedPrices
  /\ gen = GenDone
  /\ ret = [op |-> "new", args |-> Null, prev |-> "none", result |-> Undefined]
  /\ inFlight = <<>>

\* the number of closings so far: the route stamps each with the time of the call
Closings == Cardinality({ i \in 1..Len(trades) : trades[i].value.status = "CLOSED" })

OrderNext ==
  \/ \E id \in OrderIds :
        /\ MapGet(trades, id).status = "OPEN"
        /\ closeTrade(id, OrderExit(id), Date(Closings + 1))
  \/ getSessionStats(1)

SpecOrder == OrderInit /\ [][OrderNext]_vars

\* the stored trades as they would be had the closed ones been closed in the
\* order of their creation
ClosedInCreationOrder ==
  [i \in 1..Len(trades) |->
     IF trades[i].value.status # "CLOSED" THEN trades[i]
     ELSE [key |-> trades[i].key,
           value |-> Spread(trades[i].value,
                            [closedAt |->
                               Date(Cardinality({ j \in 1..i :
                                                    trades[j].value.status = "CLOSED" }))])]]

\* C26: the record getSessionStats returns depends on which trades are closed
\* and at what prices, not on the order of the closeTrade calls: it is the
\* record of the same trades closed in the order of their creation, maxDrawdown
\* included.
CloseOrderIrrelevant ==
  ret.op = "getSessionStats"
    => ret.result = SessionStats(ClosedInCreationOrder, ret.args.sessionId)

\* a loss of 100, a gain of 200 and a loss of 300 closed in the order 1, 3, 2:
\* the walk in closing order would fall by 400, the statistics report 300
CloseOrderIrrelevantWitness ==
  /\ ret.op = "getSessionStats"
  /\ Closings = 3
  /\ MapGet(trades, 1).closedAt = Date(1)
  /\ MapGet(trades, 3).closedAt = Date(2)
  /\ MapGet(trades, 2).closedAt = Date(3)
  /\ MapGet(trades, 1).type = "SELL"
  /\ MapGet(trades, 2).type = "BUY"
  /\ MapGet(trades, 3).type = "SELL"
  /\ ret.result.maxDrawdown = Int2Num(300)

-----------------------------------------------------------------------------
(* Specification of calls issued concurrently: requests that arrive together
   each wait for one call of the store, and the event loop runs the waiting
   calls in any order *)

MaxCalls == 3

\* signed counts of minutes that keep MaxCalls advances within ClockRange
ConcMinutes == { 30, -40 }

\* the calls requests that arrive together wait for: POST /api/trades,
\* POST /api/sessions, and POST /api/backtest/1/advance from the page's timer
Requests ==
  { [op |-> "createTrade", payload |-> insertTrade] :
      insertTrade \in { t \in InsertTrades : t.type = "BUY" /\ "status" \notin DOMAIN t } }
  \cup { [op |-> "createSession", payload |-> insertSession] :
           insertSession \in InsertSessions }
  \cup { [op |-> "advanceSessionTime", payload |-> [sessionId |-> 1, minutes |-> m]] :
           m \in ConcMinutes }

Received(request) ==
  [op |-> request.op, payload |-> request.payload, pc |-> "received",
   result |-> Undefined]

\* session 1 has been created, and MaxCalls requests have arrived
ConcInit ==
  /\ \E insertSession \in InsertSessions :
        sessions = <<[key |-> 1, value |-> NewSession(1, insertSession, Date(0))]>>
  /\ trades = <<>>
  /\ journalEntries = <<>>
  /\ forexPrices = SeedPrices
  /\ currentIds = [user |-> 1, session |-> 2, trade |-> 1, journal |-> 1,
                   price |-> Len(pairs) + 1]
  /\ gen = GenDone
  /\ ret = [op |-> "new", args |-> Null, prev |-> "none", result |-> Undefined]
  /\ \E batch \in [1..MaxCalls -> Requests] :
        inFlight = [i \in 1..MaxCalls |-> Received(batch[i])]

\* a call whose body stops between reading and writing, as it would across an
\* await: the first turn reads the counter or the session, a later turn writes
\* what follows from that reading
runCallTorn(i) ==
  LET call == inFlight[i]
  IN  \/ /\ call.pc = "received"
         /\ inFlight' =
              [inFlight EXCEPT
                 ![i].pc = "read",
                 ![i].result =
                    CASE call.op = "createTrade" -> [id |-> currentIds.trade]
                      [] call.op = "createSession" -> [id |-> currentIds.session]
                      [] OTHER -> [session |-> MapGet(sessions, call.payload.sessionId)]]
         /\ UNCHANGED <<sessions, trades, journalEntries, forexPrices, currentIds,
                        gen, ret>>
      \/ /\ call.pc = "read"
         /\ call.op = "createTrade"
         /\ \E at \in WallClock :
              LET trade == NewTrade(call.result.id, call.payload, at)
              IN  /\ currentIds' = [currentIds EXCEPT !.trade = call.result.id + 1]
                  /\ trades' = MapSet(trades, call.result.id, trade)
                  /\ ret' = Return("createTrade", [insertTrade |-> call.payload],
                                   "none", trade)
                  /\ inFlight' = [inFlight EXCEPT ![i].pc = "done", ![i].result = trade]
         /\ UNCHANGED <<sessions, journalEntries, forexPrices, gen>>
      \/ /\ call.pc = "read"
         /\ call.op = "createSession"
         /\ \E at \in WallClock :
              LET session == NewSession(call.result.id, call.payload, at)
              IN  /\ currentIds' = [currentIds EXCEPT !.session = call.result.id + 1]
                  /\ sessions' = MapSet(sessions, call.result.id, session)
                  /\ ret' = Return("createSession", [insertSession |-> call.payload],
                                   "none", session)
                  /\ inFlight' = [inFlight EXCEPT ![i].pc = "done", ![i].result = session]
         /\ UNCHANGED <<trades, journalEntries, forexPrices, gen>>
      \/ /\ call.pc = "read"
         /\ call.op = "advanceSessionTime"
         /\ \E at \in WallClock :
              LET session == call.result.session
                  updatedSession ==
                    Spread(session,
                           [currentTime |->
                              AdvancedTime(session.currentTime, call.payload.minutes),
                            updatedAt |-> at])
              IN  /\ sessions' = MapSet(sessions, call.payload.sessionId, updatedSession)
                  /\ ret' = Return("advanceSessionTime",
                                   [sessionId |-> call.payload.sessionId,
                                    minutes |-> call.payload.minutes, now |-> at],
                                   "none", updatedSession)
                  /\ inFlight' = [inFlight EXCEPT ![i].pc = "done",
                                                  ![i].result = updatedSession]
         /\ UNCHANGED <<trades, journalEntries, forexPrices, currentIds, gen>>

\* the event loop runs the body of waiting call i: no await inside, so the
\* whole method is one step.  Calls with equal arguments run in order of issue.
runCall(i) ==
  LET call == inFlight[i]
  IN  /\ call.pc = "received"
      /\ \A j \in 1..(i - 1) : ~Waiting(j, call.op, call.payload)
      /\ \E at \in WallClock :
            \/ call.op = "createTrade" /\ createTrade(call.payload, at)
            \/ call.op = "createSession" /\ createSession(call.payload, at)
            \/ /\ call.op = "advanceSessionTime"
               /\ advanceSessionTime(call.payload.sessionId, call.payload.minutes, at)

ConcNext == \E i \in 1..Len(inFlight) : runCall(i)

SpecConc == ConcInit /\ [][ConcNext]_vars

\* the calls of a method among the calls in flight
CallsOf(op) == { i \in 1..Len(inFlight) : inFlight[i].op = op }

RECURSIVE MinutesAsked(_)
\* the minutes the first n calls in flight ask the clock of session 1 to move
MinutesAsked(n) ==
  IF n = 0 THEN 0
  ELSE MinutesAsked(n - 1)
         + (IF inFlight[n].op = "advanceSessionTime" THEN inFlight[n].payload.minutes
            ELSE 0)

\* C27: whatever the order in which the event loop runs calls issued together,
\* once all have returned the createTrade calls hold pairwise distinct ids and
\* each returned trade is stored, the same for the createSession calls, and
\* every advanceSessionTime call on session 1 has taken effect: its clock is
\* its first clock plus the sum of all the minutes asked.
ConcurrentCallsAtomic ==
  (\A i \in 1..Len(inFlight) : inFlight[i].pc = "done")
    => /\ \A i, j \in CallsOf("createTrade") :
             i # j => inFlight[i].result.id # inFlight[j].result.id
       /\ \A i \in CallsOf("createTrade") :
             MapGet(trades, inFlight[i].result.id) = inFlight[i].result
       /\ Len(trades) = Cardinality(CallsOf("createTrade"))
       /\ \A i, j \in CallsOf("createSession") :
             i # j => inFlight[i].result.id # inFlight[j].result.id
       /\ \A i \in CallsOf("createSession") :
             MapGet(sessions, inFlight[i].result.id) = inFlight[i].result
       /\ Len(sessions) = 1 + Cardinality(CallsOf("createSession"))
       /\ \A i \in CallsOf("advanceSessionTime") : inFlight[i].result # Undefined
       /\ MapGet(sessions, 1).currentTime
            = Date(-ThirtyDays + MinutesAsked(Len(inFlight)))

\* two advances of session 1 and a createTrade issued together have all
\* returned, the advance issued second having run first
ConcurrentCallsAtomicWitness ==
  /\ Len(inFlight) = 3
  /\ \A i \in 1..Len(inFlight) : inFlight[i].pc = "done"
  /\ inFlight[1].op = "advanceSessionTime" /\ inFlight[1].payload.minutes = 30
  /\ inFlight[2].op = "advanceSessionTime" /\ inFlight[2].payload.minutes = -40
  /\ inFlight[3].op = "createTrade"
  /\ inFlight[2].result.currentTime = Date(-ThirtyDays - 40)
  /\ inFlight[1].result.currentTime = Date(-ThirtyDays - 10)

-----------------------------------------------------------------------------
(* The volatility multiplier of the hours of the day *)

\* C28: for the hour and the day of every candle the loop pushes, the
\* multiplier before the weekend dampening (the one of a Monday) is above 1
\* in the London window, hours 8 to 16, and 2.0 in the New York window, hours
\* 13 to 21, and on Saturday and Sunday the multiplier used is 0.3 times that.
\* The multiplier is in hundredths.
WindowMultipliers ==
  gen.stage = "loop" /\ gen.candle # Null
    => LET t == gen.candle.timestamp.time
           hour == getHours(t)
           dayOfWeek == getDay(t)
           weekday == volatilityMultiplier(hour, 1)
       IN  /\ (hour >= 8 /\ hour <= 16 => weekday > 100)
           /\ (hour >= 13 /\ hour <= 21 => weekday = 200)
           /\ (dayOfWeek \in {0, 6}
                 => volatilityMultiplier(hour, dayOfWeek) * 10 = weekday * 3)

-----------------------------------------------------------------------------
(* Specification of closing: a session, its trades, and closeTrade on any id *)

CloseNext ==
  \/ \E insertSession \in InsertSessions, at \in WallClock :
        SessionsLeft /\ createSession(insertSession, at)
  \/ \E insertTrade \in InsertTrades, at \in WallClock :
        TradesLeft /\ createTrade(insertTrade, at)
  \/ \E id \in TradeIds, c \in CloseArgs : closeTrade(id, c.exitPrice, c.closedAt)

SpecClose == Init /\ [][CloseNext]_vars

\* C29: closeTrade changes nothing but the trade it closes: the session
\* records, the currentBalance of the owning session among them, the counters,
\* the journal and the price series stay as they were, the Map of trades keeps
\* its keys, and every other trade keeps its record.
CloseTouchesOneTrade ==
  [][ret'.op = "closeTrade"
       => /\ UNCHANGED <<sessions, currentIds, journalEntries, forexPrices>>
          /\ MapKeys(trades') = MapKeys(trades)
          /\ \A id \in MapKeys(trades) \ {ret'.args.id} :
                MapGet(trades', id) = MapGet(trades, id)]_vars

\* trade 1 of the stored session 1 has been closed with a pnl of 500.00 while
\* trade 2 is open, and the balance of the session is its starting balance
CloseTouchesOneTradeWitness ==
  /\ ret.op = "closeTrade"
  /\ ret.result # Undefined
  /\ ret.result.id = 1
  /\ ret.result.pnl = Dec(50000, 2)
  /\ MapHas(sessions, ret.result.sessionId)
  /\ MapGet(sessions, ret.result.sessionId).currentBalance
       = MapGet(sessions, ret.result.sessionId).startingBalance
  /\ MapHas(trades, 2)
  /\ MapGet(trades, 2).status = "OPEN"

-----------------------------------------------------------------------------
(* Specification of trades without a session: sessions created and deleted,
   trades created for ids with and without a record, closed, listed and
   counted *)

OrphanNext ==
  \/ \E insertSession \in InsertSessions, at \in WallClock :
        currentIds.session <= MaxSessions + 1 /\ createSession(insertSession, at)
  \/ \E id \in SessionIds : deleteSession(id)
  \/ \E insertTrade \in ListInserts, at \in WallClock :
        TradesLeft /\ createTrade(insertTrade, at)
  \/ \E id \in TradeIds : closeTrade(id, ListClose.exitPrice, ListClose.closedAt)
  \/ \E sessionId \in StatSessionIds : getTradesBySessionId(sessionId)
  \/ \E sessionId \in StatSessionIds : getSessionStats(sessionId)

SpecOrphan == Init /\ [][OrphanNext]_vars

\* the stored trades that carry a session id
TradesNaming(sessionId) ==
  { i \in 1..Len(trades) : trades[i].value.sessionId = sessionId }

\* C30: createTrade stores its trade also when the sessionId it names has no
\* record; deleteSession removes the record of one session and no trade; the
\* reads return and count the trades that name an id whether or not that id
\* has a record; and a session created later never gets the id of a session
\* issued before, so the trades of a deleted session never name it.
TradesOutliveSessions ==
  [][/\ (ret'.op = "createTrade"
           => /\ ret'.result.sessionId = ret'.args.insertTrade.sessionId
              /\ MapGet(trades', ret'.result.id) = ret'.result)
     /\ (ret'.op = "deleteSession"
           => /\ trades' = trades
              /\ sessions' = MapDelete(sessions, ret'.args.id))
     /\ (ret'.op = "getTradesBySessionId"
           => Len(ret'.result) = Cardinality(TradesNaming(ret'.args.sessionId)))
     /\ (ret'.op = "getSessionStats"
           => ret'.result.totalTrades
                = Cardinality({ i \in TradesNaming(ret'.args.sessionId) :
                                  trades[i].value.status = "CLOSED" }))
     /\ (ret'.op = "createSession"
           => \A i \in 1..Len(trades) :
                 trades[i].value.sessionId < currentIds.session
                   => trades[i].value.sessionId # ret'.result.id)]_vars

\* session 1 was deleted and session 2 created after it; the closed trade of
\* session 1 is still counted for id 1, and session 2 has no trade
TradesOutliveSessionsWitness ==
  /\ MapKeys(sessions) = {2}
  /\ ret.op = "getSessionStats"
  /\ ret.args.sessionId = 1
  /\ ret.result.totalTrades = 1
  /\ TradesNaming(2) = {}

=============================================================================
